---- MODULE Spec2Model ----
(***************************************************************************)
(* Model of the solution-enumeration engine of the KLEE graph-colouring    *)
(* tool: KleeWorker.run / KleeWorker.cancel (models/klee_worker.py), the   *)
(* driver KleeRunner (klee/runner.py), the trace parser (klee/             *)
(* ktest_parser.py) and the program generator (klee/code_generator.py).    *)
(* The external toolchain (clang, klee, ktest-tool) and the file system    *)
(* are the environment: their outcomes are nondeterministic choices.       *)
(***************************************************************************)
EXTENDS Integers, Sequences, FiniteSets, TLC

(***************************************************************************)
(* Bounds of the model.                                                    *)
(***************************************************************************)
\* most trace files (*.ktest) the solver writes in the course of one session
MaxTraces == 3

\* deepest search tree and most children per node the tree index is applied to
MaxDepth == 4
MaxArity == 3

\* problem instances handed to the engine: n nodes, k colours, edge list
NodeCounts == 0..2
ColorCounts == 1..2

VARIABLES
    num_nodes,      \* KleeWorker.num_nodes
    num_colors,     \* KleeWorker.num_colors
    edges,          \* KleeWorker.edges: sequence of pairs <<u, v>>
    pc,             \* position of the thread executing run()
    blocked,        \* run(): local list `blocked`
    all_colorings,  \* run(): local list `all_colorings`
    iteration,      \* run(): local counter `iteration`
    cancel_event,   \* KleeWorker._cancel_event (threading.Event)
    runner,         \* KleeWorker._runner is not None
    c_code,         \* the program generated for the current iteration
    c_file,         \* the temporary .c file exists
    work_dir,       \* klee_runs/latest: [exists, local_c, bc_file, outs, klee_out]
    child,          \* subprocess in flight: "none", "clang", "klee"
    new,            \* run(): list `new` of the current iteration
    idx,            \* position of the `for c in new` loop (1-based)
    exit_kind,      \* how the try block was left: "break", "continue", "raise"
    exc,            \* str(e) of the exception being propagated
    events,         \* signals emitted so far, in order
    self_colorings, \* MainWindow._colorings
    status,         \* text shown in the main window's status bar
    hist,           \* history record used only by the properties
    tree,           \* SearchTreeWidget: arguments and results of the tree index
    ktest,          \* one trace: its records, ktest-tool's output, the parsed objects
    scene,          \* GraphScene: nodes, edges, next id, undo and redo stacks
    show            \* MainWindow._generated_code, and the text of the code dialog if the
                    \* last handler of the main window opened one (NoCode if not)

vars == <<num_nodes, num_colors, edges, pc, blocked, all_colorings, iteration,
          cancel_event, runner, c_code, c_file, work_dir, child, new, idx,
          exit_kind, exc, events, self_colorings, status, hist, tree, ktest, scene, show>>

\* the problem of the session, the main window's fields, the tree view
problem == <<num_nodes, num_colors, edges>>
window == <<self_colorings, status, show>>
view == <<tree, ktest, scene>>

\* everything the enumeration engine reads or writes
engine == <<num_nodes, num_colors, edges, pc, blocked, all_colorings, iteration,
            cancel_event, runner, c_code, c_file, work_dir, child, new, idx,
            exit_kind, exc, events, self_colorings, status, hist, show>>

(***************************************************************************)
(* Helpers on sequences.                                                   *)
(***************************************************************************)
Range(s) == {s[i] : i \in 1..Len(s)}

Contains(s, x) == \E i \in 1..Len(s) : s[i] = x

\* Python slice s[:m]
Prefix(s, m) == IF Len(s) <= m THEN s ELSE SubSeq(s, 1, m)

Zeros(m) == [i \in 1..m |-> 0]

SeqsUpTo(S, m) == UNION {[1..l -> S] : l \in 0..m}

(***************************************************************************)
(* The problem and its feasible assignments (the reference the claims      *)
(* compare the engine with).                                               *)
(***************************************************************************)
EdgeLists(n) ==
    {<<>>} \cup {<<e>> : e \in {p \in (0..(n-1)) \X (0..(n-1)) : p[1] < p[2]}}

Problems ==
    UNION {{[n |-> n, k |-> k, e |-> e] : k \in ColorCounts, e \in EdgeLists(n)} :
              n \in NodeCounts}

\* assignment a (1-based sequence) gives different values to both ends of every edge
SatisfiesEdges(a, es) ==
    \A i \in 1..Len(es) :
        /\ es[i][1] + 1 \in DOMAIN a
        /\ es[i][2] + 1 \in DOMAIN a
        /\ a[es[i][1] + 1] # a[es[i][2] + 1]

Feasible(n, k, es) == {a \in [1..n -> 0..(k-1)] : SatisfiesEdges(a, es)}

(***************************************************************************)
(* klee/code_generator.py: the generated program, represented by what its  *)
(* text is a function of: NODES, COLORS, the edge table and one blocking   *)
(* klee_assume per entry of `blocked`.                                     *)
(***************************************************************************)
generate_code(n, es, k, bl) ==
    [NODES |-> n, COLORS |-> k, EDGES |-> es, blocking |-> bl]

NoCode == [NODES |-> 0, COLORS |-> 0, EDGES |-> <<>>, blocking |-> <<>>]

\* values the symbolic int color[i] is tried with: the range and one value
\* on either side of it
SymbolicInts(code) == (-1)..code.COLORS

\* code_generator.py:61-65: color[0] == c0 && color[1] == c1 && ..., one
\* conjunct per entry of the blocked coloring
blocking_condition(coloring, a) ==
    \A i \in 1..Len(coloring) : i \in DOMAIN a /\ a[i] = coloring[i]

\* the values of color[] that pass every klee_assume of the program
\* (code_generator.py:40-67)
Admitted(code) ==
    {a \in [1..code.NODES -> SymbolicInts(code)] :
        /\ \A i \in 1..code.NODES : a[i] >= 0 /\ a[i] < code.COLORS
        /\ \A i \in 1..Len(code.EDGES) :
              a[code.EDGES[i][1] + 1] # a[code.EDGES[i][2] + 1]
        /\ \A j \in 1..Len(code.blocking) : ~blocking_condition(code.blocking[j], a)}

(***************************************************************************)
(* klee/ktest_parser.py.  A trace file is [ok, objects]: ok = FALSE is a   *)
(* file on which parse_ktest_file raises; objects is the dictionary        *)
(* KTestResult.objects as a set of <<name, values>> pairs.                 *)
(***************************************************************************)
ColorKeys == <<"color_0", "color_1", "color_2", "color_3">>

HasKey(objects, key) == \E o \in objects : o[1] = key

Lookup(objects, key) == (CHOOSE o \in objects : o[1] = key)[2]

\* get_coloring line 138: objects[key][0] raises IndexError when the value
\* list of a present color_i object is empty (a record of size 0)
scalar_index_error(objects, n) ==
    \E i \in 0..(n-1) :
        HasKey(objects, ColorKeys[i + 1]) /\ Lookup(objects, ColorKeys[i + 1]) = <<>>

RECURSIVE ScalarColors(_, _, _)
\* the list `colors` built by the loop of get_coloring over range(num_nodes);
\* it is used only when scalar_index_error is false
ScalarColors(objects, i, n) ==
    IF i >= n THEN <<>>
    ELSE IF HasKey(objects, ColorKeys[i + 1]) /\ Lookup(objects, ColorKeys[i + 1]) # <<>>
         THEN <<Lookup(objects, ColorKeys[i + 1])[1]>> \o ScalarColors(objects, i + 1, n)
         ELSE ScalarColors(objects, i + 1, n)

\* Optional[List[int]]: [some |-> FALSE] is None
get_coloring(objects, n) ==
    LET colors == ScalarColors(objects, 0, n) IN
    IF Len(colors) = n THEN [some |-> TRUE, val |-> colors]
    ELSE IF HasKey(objects, "color")
         THEN [some |-> TRUE, val |-> Prefix(Lookup(objects, "color"), n)]
         ELSE [some |-> FALSE, val |-> <<>>]

\* smallest file name of a non-empty set of files
FirstFile(files) == CHOOSE f \in files : \A g \in files : f.name <= g.name

RECURSIVE sorted_ktests(_)
\* sorted(dir.glob("*.ktest")): the files of a directory in ascending name order
sorted_ktests(files) ==
    IF files = {} THEN <<>>
    ELSE <<FirstFile(files)>> \o sorted_ktests(files \ {FirstFile(files)})

RECURSIVE parse_all(_)
\* KTestParser._parse_all: files in name order, a file that raises is dropped
parse_all(files) ==
    IF files = <<>> THEN <<>>
    ELSE IF Head(files).ok
         THEN <<Head(files).objects>> \o parse_all(Tail(files))
         ELSE parse_all(Tail(files))

RECURSIVE get_all_colorings(_, _)
\* `if coloring:` drops None and the empty list
get_all_colorings(results, n) ==
    IF results = <<>> THEN <<>>
    ELSE LET r == get_coloring(Head(results), n)
             rest == get_all_colorings(Tail(results), n)
         IN IF r.some /\ r.val # <<>> THEN <<r.val>> \o rest ELSE rest

\* get_all_colorings lets the IndexError of get_coloring through
get_all_colorings_raises(results, n) ==
    \E i \in 1..Len(results) : scalar_index_error(results[i], n)

\* parse_klee_results(klee_out_dir, num_nodes): KTestParser(dir) followed by
\* get_all_colorings; raised = an exception leaves the call
parse_klee_results(klee_out, n) ==
    IF ~klee_out.exists
    THEN [raised |-> TRUE, msg |-> "Directory doesn't exist", val |-> <<>>]
    ELSE LET results == parse_all(sorted_ktests(klee_out.files)) IN
         IF get_all_colorings_raises(results, n)
         THEN [raised |-> TRUE, msg |-> "list index out of range", val |-> <<>>]
         ELSE [raised |-> FALSE, msg |-> "", val |-> get_all_colorings(results, n)]

\* the filter with the membership test left out
filter_new_unfiltered(colorings, bl) == colorings

RECURSIVE filter_new(_, _)
\* klee_worker.py:79  new = [c for c in colorings if c not in blocked]
filter_new(colorings, bl) ==
    IF colorings = <<>> THEN <<>>
    ELSE IF ~Contains(bl, Head(colorings))
         THEN <<Head(colorings)>> \o filter_new(Tail(colorings), bl)
         ELSE filter_new(Tail(colorings), bl)

(***************************************************************************)
(* What the solver may leave behind for a problem: the trace files of one  *)
(* output directory.                                                       *)
(***************************************************************************)
Corrupt == [ok |-> FALSE, objects |-> {}]

Trace(objects) == [ok |-> TRUE, objects |-> objects]

TraceFiles(n, k) ==
    {Corrupt, Trace({})}
    \cup {Trace({<<"color", a>>}) : a \in [1..n -> 0..(k-1)]}
    \cup {Trace({<<"color", Zeros(n + 1)>>})}
    \cup (IF n >= 1 THEN {Trace({<<"color", Zeros(n - 1)>>}),
                          Trace({<<ColorKeys[i + 1], <<0>>>> : i \in 0..(n-1)}),
                          Trace({<<"color_0", <<>>>>})}
                    ELSE {})

SolverOutputs(n, k, written) == SeqsUpTo(TraceFiles(n, k), MaxTraces - written)

\* the file test00000<name>.ktest holding trace t
File(name, t) == [name |-> name, ok |-> t.ok, objects |-> t.objects]

\* the directory klee-out-<name>, last modified at mtime, written by run `run`
\* of this session (0: by an earlier session)
OutDir(name, mtime, files, run) ==
    [name |-> name, mtime |-> mtime, files |-> files, run |-> run]

\* the output directory a solver run creates for the traces `out`: KLEE
\* takes the first free klee-out-N
NewOutDir(outs, out, run) ==
    OutDir(Cardinality(outs), run, {File(i, out[i]) : i \in 1..Len(out)}, run)

(***************************************************************************)
(* Initial state: a KleeWorker has been constructed for some problem; the  *)
(* working directory klee_runs/latest may be left over from an earlier     *)
(* session.                                                                *)
(***************************************************************************)
\* klee_out is the directory a run's result names (KleeRunResult.klee_out_dir
\* and ktest_files); outs are the klee-out-* directories on disk
NoOut == [exists |-> FALSE, name |-> -1, files |-> {}, ktests |-> <<>>, run |-> 0]

NoWorkDir ==
    [exists |-> FALSE, local_c |-> FALSE, bc_file |-> FALSE, outs |-> {},
     klee_out |-> NoOut]

StaleWorkDir(n) ==
    [exists |-> TRUE, local_c |-> TRUE, bc_file |-> TRUE,
     outs |-> {OutDir(0, 0, {File(1, Trace({<<"color", Zeros(n)>>}))}, 0)},
     klee_out |-> NoOut]

HistInit ==
    [cancel_in_flight |-> FALSE,  \* cancel() was called while a subprocess was running
     observed |-> FALSE,          \* run() has read the flag as set
     late_start |-> FALSE,        \* an iteration or subprocess began after `observed`
     solver_complete |-> TRUE,    \* every run returned an unblocked feasible assignment if one existed
     failed |-> FALSE,            \* some stage raised
     tool_failed |-> FALSE,       \* a clang or klee invocation failed or timed out
     procs |-> 0,                 \* subprocesses started by the session and not yet ended
     constructed |-> FALSE,       \* a KleeRunner of this session was constructed
     compile_failed |-> FALSE,    \* clang exited non-zero or left no bitcode file
     diag |-> "",                 \* stderr of that clang invocation
     klee_run |-> 0,              \* number of the run that last started klee
     tmp_written |-> FALSE,       \* the program file of the current iteration was written
     run_outcome |-> "none",      \* last KleeRunner.run: none / running / returned / raised
     runs |-> 0,                  \* KleeRunner.run calls started
     run_iter |-> 0,              \* iteration whose run last reset the working directory
     written |-> 0,               \* trace files the solver has written so far
     excl |-> <<>>]               \* the exclusion list of the last program generation

\* the engine for problem p, about to execute `start`, working directory wd
EngineAt(p, start, wd) ==
    /\ num_nodes = p.n
    /\ num_colors = p.k
    /\ edges = p.e
    /\ work_dir = wd
    /\ pc = start
    /\ blocked = <<>>
    /\ all_colorings = <<>>
    /\ iteration = 0
    /\ cancel_event = FALSE
    /\ runner = FALSE
    /\ c_code = NoCode
    /\ c_file = FALSE
    /\ child = "none"
    /\ new = <<>>
    /\ idx = 1
    /\ exit_kind = "none"
    /\ exc = ""
    /\ events = <<>>
    /\ self_colorings = <<>>
    /\ show = [generated_code |-> NoCode, dialog |-> NoCode]
    /\ status = IF start = "g_idle" THEN "Ready" ELSE "Running KLEE..."
    /\ hist = HistInit

\* GraphScene.__init__ (graph_scene.py:24-47) with its UndoRedoManager;
\* `edits` counts the editor operations applied so far, `moves` the drags among them
EmptyScene ==
    [nodes |-> <<>>, edges |-> <<>>, next_node_id |-> 0,
     undo_stack |-> <<>>, redo_stack |-> <<>>, edits |-> 0, moves |-> 0]

\* no trace is being decoded
NoKtest == [step |-> "none", records |-> <<>>, lines |-> <<>>, objects |-> {}]

\* the tree view before any index computation
NoTree ==
    [step |-> "none", k |-> 1, n |-> 0, leaf_index |-> 0, coloring |-> <<>>,
     back |-> 0, first_leaf |-> 0, node_id |-> 0,
     tree_k |-> -1, tree_depth |-> -1, node_items |-> <<>>, coloring_map |-> <<>>,
     model |-> [raised |-> FALSE, levels |-> <<>>], clicked |-> -1, partial |-> <<>>,
     spelled |-> <<>>]

InitFrom(ps, start) ==
    /\ \E p \in ps : \E wd \in {NoWorkDir, StaleWorkDir(p.n)} : EngineAt(p, start, wd)
    /\ tree = NoTree
    /\ ktest = NoKtest
    /\ scene = EmptyScene

Init == InitFrom(Problems, "start")

\* an event that carries no list
Emit_without_list(sig, coloring, list, msg) ==
    events' = Append(events, [sig |-> sig, coloring |-> coloring, list |-> <<>>,
                              msg |-> msg, iter |-> iteration])

Emit(sig, coloring, list, msg) ==
    events' = Append(events, [sig |-> sig, coloring |-> coloring, list |-> list,
                              msg |-> msg, iter |-> iteration])

\* leave the try block of the iteration: the clause at `to` runs next
Leave(to, kind, msg) ==
    /\ pc' = to
    /\ exit_kind' = kind
    /\ exc' = msg

(***************************************************************************)
(* KleeWorker.cancel (klee_worker.py:31-40), called from another thread.   *)
(* It sets the flag; self._runner.terminate() raises AttributeError        *)
(* (KleeRunner defines no terminate), which the except clause swallows, so *)
(* the subprocess in flight is left running.                               *)
(***************************************************************************)
terminate(ch) == ch

cancel ==
    /\ pc # "done"
    /\ ~cancel_event \/ (child # "none" /\ ~hist.cancel_in_flight)
    /\ cancel_event' = TRUE
    /\ child' = IF runner THEN terminate(child) ELSE child
    /\ hist' = [hist EXCEPT !.cancel_in_flight = @ \/ child # "none"]
    /\ UNCHANGED <<view, problem, window, pc, blocked, all_colorings, iteration,
                   runner, c_code, c_file, work_dir, new, idx, exit_kind, exc, events>>

(***************************************************************************)
(* KleeRunner (klee/runner.py), the steps of a driver call made at `here`; *)
(* `next` is where the caller continues, `fin` its handler for a raise.    *)
(***************************************************************************)
\* KleeRunner.__init__ (runner.py:21-31): _detect_clang and the `klee`
\* lookup succeed, or KleeRunnerError is raised and no runner is assigned
Construct(here, next, fin) ==
    /\ pc = here
    /\ \E found \in {"ok", "no_clang", "no_klee"} :
          IF found = "ok"
          THEN /\ runner' = TRUE
               /\ pc' = next
               /\ hist' = [hist EXCEPT !.constructed = TRUE]
               /\ UNCHANGED <<exit_kind, exc>>
          ELSE /\ Leave(fin, "raise", IF found = "no_clang"
                                      THEN "Nije pronadjen KLEE-kompatibilan clang."
                                      ELSE "klee nije na PATH-u.")
               /\ hist' = [hist EXCEPT !.failed = TRUE]
               /\ UNCHANGED runner
    /\ UNCHANGED <<view, problem, window, blocked, all_colorings, iteration,
                   cancel_event, c_code, c_file, work_dir, child, new, idx, events>>

\* a call that returns without waiting for the process it started
reap_skipped(procs) == procs

\* KleeRunner._run (runner.py:95-108): subprocess.run returns, or raises
\* TimeoutExpired after killing the process, only when the process has ended
reap(procs) == procs - 1

\* subprocess.run starts the process
spawn(procs) == procs + 1

\* the directory is created if missing and its contents are kept
reset_kept(wd) == [wd EXCEPT !.exists = TRUE, !.local_c = TRUE]

\* KleeRunner.run steps 1-2 (runner.py:157-165): destructive reset of
\* klee_runs/latest, then the program is copied into it
reset_work_dir(wd) ==
    [exists |-> TRUE, local_c |-> TRUE, bc_file |-> FALSE, outs |-> {},
     klee_out |-> NoOut]

\* KleeRunner.run up to the start of the compiler (runner.py:152-171)
RunBegin(here, next, fin) ==
    /\ pc = here
    /\ IF ~c_file
       THEN /\ Leave(fin, "raise", "Ne postoji C fajl")
            /\ hist' = [hist EXCEPT !.failed = TRUE, !.run_outcome = "raised",
                                    !.runs = @ + 1]
            /\ UNCHANGED <<work_dir, child>>
       ELSE /\ work_dir' = reset_work_dir(work_dir)
            /\ \E klee_h \in BOOLEAN :
                  IF klee_h
                  THEN /\ child' = "clang"
                       /\ pc' = next
                       /\ hist' = [hist EXCEPT !.run_outcome = "running",
                                               !.runs = @ + 1,
                                               !.run_iter = iteration,
                                               !.late_start = @ \/ hist.observed,
                                               !.procs = spawn(@)]
                       /\ UNCHANGED <<exit_kind, exc>>
                  ELSE /\ Leave(fin, "raise", "Ne mogu da nadjem klee/klee.h")
                       /\ hist' = [hist EXCEPT !.failed = TRUE, !.run_outcome = "raised",
                                               !.runs = @ + 1, !.run_iter = iteration]
                       /\ UNCHANGED child
    /\ UNCHANGED <<view, problem, window, blocked, all_colorings, iteration,
                   cancel_event, runner, c_code, c_file, new, idx, events>>

\* what clang may write to stderr
ClangStderr == {"", "graph.c:27:5: error: use of undeclared identifier"}

\* runner.py:173: f"clang nije uspeo:\n{proc.stderr}"
clang_error(stderr) ==
    IF stderr = "" THEN "clang nije uspeo:"
    ELSE "clang nije uspeo: graph.c:27:5: error: use of undeclared identifier"

\* the test of the exit status alone
clang_failed_rc_only(returncode, bc_exists) == returncode # 0

\* runner.py:172: proc.returncode != 0 or not bc_file.exists()
clang_failed(returncode, bc_exists) == returncode # 0 \/ ~bc_exists

\* the compiler subprocess ends (runner.py:171-181) with an exit status,
\* with or without a bitcode file, or is killed at the timeout; on success
\* klee is started, otherwise KleeRunnerError / TimeoutExpired is raised
ClangExit(here, next, fin) ==
    /\ pc = here
    /\ child = "clang"
    /\ \/ \E returncode \in 0..1, bc_exists \in BOOLEAN, stderr \in ClangStderr :
             LET bad == returncode # 0 \/ ~bc_exists IN
             /\ work_dir' = [work_dir EXCEPT !.bc_file = bc_exists]
             /\ IF clang_failed(returncode, bc_exists)
                THEN /\ child' = "none"
                     /\ Leave(fin, "raise", clang_error(stderr))
                     /\ hist' = [hist EXCEPT !.failed = TRUE, !.run_outcome = "raised",
                                             !.tool_failed = TRUE, !.procs = reap(@),
                                             !.compile_failed = bad,
                                             !.diag = IF bad THEN stderr ELSE ""]
                ELSE /\ child' = "klee"
                     /\ pc' = next
                     /\ hist' = [hist EXCEPT !.late_start = @ \/ hist.observed,
                                             !.procs = spawn(reap(@)),
                                             !.klee_run = hist.runs,
                                             !.compile_failed = bad,
                                             !.diag = IF bad THEN stderr ELSE ""]
                     /\ UNCHANGED <<exit_kind, exc>>
       \/ /\ child' = "none"
          /\ Leave(fin, "raise", "timed out")
          /\ hist' = [hist EXCEPT !.failed = TRUE, !.run_outcome = "raised",
                                  !.tool_failed = TRUE, !.procs = reap(@)]
          /\ UNCHANGED work_dir
    /\ UNCHANGED <<view, problem, window, blocked, all_colorings, iteration,
                   cancel_event, runner, c_code, c_file, new, idx, events>>

\* the run returned an unblocked feasible assignment if one existed
ReturnsUnblockedFeasible(out) ==
    LET feas == Feasible(num_nodes, num_colors, edges)
        got  == IF get_all_colorings_raises(parse_all(out), num_nodes) THEN {}
                ELSE Range(get_all_colorings(parse_all(out), num_nodes))
    IN  (feas \ Range(blocked) # {}) =>
            (\E c \in got : c \in feas /\ ~Contains(blocked, c))

\* the first entry of the list sorted by st_mtime
OldestOuts(outs) == {d \in outs : \A e \in outs : d.mtime <= e.mtime}

\* runner.py:186,189: the klee-out-* entries sorted by st_mtime, the last
\* one taken; among entries of equal mtime the order is that of glob
LatestOuts(outs) == {d \in outs : \A e \in outs : e.mtime <= d.mtime}

\* runner.py:185-191 on the working directory as the solver left it
Locate(wd, next, fin) ==
    IF wd.outs = {}
    THEN /\ Leave(fin, "raise", "Nema klee-out-* direktorijuma")
         /\ work_dir' = wd
    ELSE /\ \E d \in LatestOuts(wd.outs) :
               work_dir' = [wd EXCEPT !.klee_out =
                               [exists |-> TRUE, name |-> d.name, files |-> d.files,
                                ktests |-> sorted_ktests(d.files), run |-> d.run]]
         /\ pc' = next
         /\ UNCHANGED <<exit_kind, exc>>

\* the solver subprocess ends (runner.py:181-200): it exits with status 0,
\* having written its traces to a new output directory (or none), and the
\* output directory is located; or it fails or times out
KleeExit(here, next, fin) ==
    /\ pc = here
    /\ child = "klee"
    /\ child' = "none"
    /\ \/ \E out \in SolverOutputs(num_nodes, num_colors, hist.written), made \in BOOLEAN :
             /\ made \/ out = <<>>
             /\ LET wd == IF made
                          THEN [work_dir EXCEPT !.outs =
                                   @ \cup {NewOutDir(work_dir.outs, out, hist.runs)}]
                          ELSE work_dir
                IN  /\ Locate(wd, next, fin)
                    /\ hist' = IF wd.outs = {}
                               THEN [hist EXCEPT !.failed = TRUE, !.run_outcome = "raised",
                                                 !.procs = reap(@)]
                               ELSE [hist EXCEPT
                                        !.procs = reap(@),
                                        !.run_outcome = "returned",
                                        !.written = @ + Len(out),
                                        !.solver_complete = @ /\ ReturnsUnblockedFeasible(out)]
       \/ \E outcome \in {"nonzero", "timeout"} :
             /\ Leave(fin, "raise", IF outcome = "nonzero" THEN "KLEE nije uspeo"
                                                          ELSE "timed out")
             /\ hist' = [hist EXCEPT !.failed = TRUE, !.run_outcome = "raised",
                                     !.tool_failed = TRUE, !.procs = reap(@)]
             /\ UNCHANGED work_dir
    /\ UNCHANGED <<view, problem, window, blocked, all_colorings, iteration,
                   cancel_event, runner, c_code, c_file, new, idx, events>>

(***************************************************************************)
(* KleeWorker.run (klee_worker.py:46-108), one action per step between     *)
(* two points where cancel() can be observed to interleave.                *)
(***************************************************************************)
\* lines 48-50
W_Start ==
    /\ pc = "start"
    /\ pc' = "while"
    /\ blocked' = <<>>
    /\ all_colorings' = <<>>
    /\ iteration' = 0
    /\ UNCHANGED <<view, problem, window, cancel_event, runner, c_code, c_file,
                   work_dir, child, new, idx, exit_kind, exc, events, hist>>

\* line 52, flag set: the loop ends
W_WhileCancelled ==
    /\ pc = "while"
    /\ cancel_event
    /\ pc' = "after_loop"
    /\ hist' = [hist EXCEPT !.observed = TRUE]
    /\ UNCHANGED <<view, problem, window, blocked, all_colorings, iteration,
                   cancel_event, runner, c_code, c_file, work_dir, child, new, idx,
                   exit_kind, exc, events>>

\* lines 52-65, flag clear: next iteration, program generated and written
\* to a temporary file (delete=False)
W_Generate ==
    /\ pc = "while"
    /\ ~cancel_event
    /\ iteration' = iteration + 1
    /\ c_code' = generate_code(num_nodes, edges, num_colors, blocked)
    /\ c_file' = TRUE
    /\ pc' = "check1"
    /\ hist' = [hist EXCEPT !.late_start = @ \/ hist.observed, !.tmp_written = TRUE, !.excl = blocked]
    /\ UNCHANGED <<view, problem, window, blocked, all_colorings, cancel_event,
                   runner, work_dir, child, new, idx, exit_kind, exc, events>>

\* lines 63-65 failing: the file cannot be created, or it is created and
\* the write raises; both happen before the try block, so no finally runs
W_GenerateFails ==
    /\ pc = "while"
    /\ ~cancel_event
    /\ iteration' = iteration + 1
    /\ c_code' = generate_code(num_nodes, edges, num_colors, blocked)
    /\ \E created \in BOOLEAN : c_file' = created
    /\ pc' = "except"
    /\ exc' = "OSError"
    /\ hist' = [hist EXCEPT !.late_start = @ \/ hist.observed, !.tmp_written = FALSE, !.excl = blocked,
                            !.failed = TRUE]
    /\ UNCHANGED <<view, problem, window, blocked, all_colorings, cancel_event,
                   runner, work_dir, child, new, idx, exit_kind, events>>

\* lines 68-69
W_Check1 ==
    /\ pc = "check1"
    /\ IF cancel_event
       THEN /\ Leave("finally", "break", "")
            /\ hist' = [hist EXCEPT !.observed = TRUE]
       ELSE /\ pc' = "construct"
            /\ UNCHANGED <<exit_kind, exc, hist>>
    /\ UNCHANGED <<view, problem, window, blocked, all_colorings, iteration,
                   cancel_event, runner, c_code, c_file, work_dir, child, new, idx, events>>

\* line 71
W_Construct == Construct("construct", "run", "finally")

\* line 72
W_RunBegin == RunBegin("run", "clang", "finally")

W_ClangExit == ClangExit("clang", "klee", "finally")

W_KleeExit == KleeExit("klee", "check2", "finally")

\* lines 74-75
W_Check2 ==
    /\ pc = "check2"
    /\ IF cancel_event
       THEN /\ Leave("finally", "break", "")
            /\ hist' = [hist EXCEPT !.observed = TRUE]
       ELSE /\ pc' = "parse"
            /\ UNCHANGED <<exit_kind, exc, hist>>
    /\ UNCHANGED <<view, problem, window, blocked, all_colorings, iteration,
                   cancel_event, runner, c_code, c_file, work_dir, child, new, idx, events>>

\* lines 77-82: parse the output directory, filter, stop when nothing is new
W_Parse ==
    /\ pc = "parse"
    /\ LET r == parse_klee_results(work_dir.klee_out, num_nodes) IN
       IF r.raised
       THEN /\ Leave("finally", "raise", r.msg)
            /\ hist' = [hist EXCEPT !.failed = TRUE]
            /\ UNCHANGED <<new, idx>>
       ELSE LET fresh == filter_new(r.val, blocked)
            IN  /\ new' = fresh
                /\ idx' = 1
                /\ IF fresh = <<>>
                   THEN Leave("finally", "break", "")
                   ELSE pc' = "emit" /\ UNCHANGED <<exit_kind, exc>>
                /\ UNCHANGED hist
    /\ UNCHANGED <<view, problem, window, blocked, all_colorings, iteration,
                   cancel_event, runner, c_code, c_file, work_dir, child, events>>

\* an exclusion list that keeps the last assignment only
append_blocked_replacing(bl, c) == <<c>>

\* line 86: blocked.append(c)
append_blocked(bl, c) == Append(bl, c)

\* a test that never sees the flag
is_cancelled_never(flag) == FALSE

\* lines 42-43: self._cancel_event.is_set()
is_cancelled(flag) == flag

\* lines 84-89: one turn of `for c in new`
W_Emit ==
    /\ pc = "emit"
    /\ IF is_cancelled(cancel_event)
       THEN /\ Leave("finally", "continue", "")
            /\ hist' = [hist EXCEPT !.observed = TRUE]
            /\ UNCHANGED <<blocked, all_colorings, events, idx>>
       ELSE /\ blocked' = append_blocked(blocked, new[idx])
            /\ all_colorings' = Append(all_colorings, new[idx])
            /\ Emit("found", new[idx], <<>>, "")
            /\ idx' = idx + 1
            /\ IF idx = Len(new)
               THEN Leave("finally", "continue", "")
               ELSE UNCHANGED <<pc, exit_kind, exc>>
            /\ UNCHANGED hist
    /\ UNCHANGED <<view, problem, window, iteration, cancel_event, runner,
                   c_code, c_file, work_dir, child, new>>

\* an unlink that leaves the file in place
unlink_skipped(file_exists) == file_exists

\* line 94: os.unlink(c_file)
unlink(file_exists) == FALSE

\* a loop that starts the next iteration after an exception
after_finally_retry(kind) ==
    IF kind = "break" THEN "after_loop" ELSE "while"

\* where control goes after the finally clause: past the loop on break, to
\* the loop test on a normal end of the body, to the except clause
\* (lines 105-108, outside the loop) on an exception
after_finally(kind) ==
    CASE kind = "break" -> "after_loop"
      [] kind = "continue" -> "while"
      [] OTHER -> "except"

\* lines 91-96: the finally clause of the iteration
W_Finally ==
    /\ pc = "finally"
    /\ runner' = FALSE
    /\ c_file' = unlink(c_file)
    /\ pc' = after_finally(exit_kind)
    /\ exit_kind' = "none"
    /\ UNCHANGED <<view, problem, window, blocked, all_colorings, iteration,
                   cancel_event, c_code, work_dir, child, new, idx, exc, events, hist>>

\* lines 98-103
W_AfterLoop ==
    /\ pc = "after_loop"
    /\ pc' = "done"
    /\ IF cancel_event
       THEN /\ Emit("cancelled", <<>>, <<>>, "")
            /\ hist' = [hist EXCEPT !.observed = TRUE]
       ELSE /\ Emit("finished", <<>>, all_colorings, "")
            /\ UNCHANGED hist
    /\ UNCHANGED <<view, problem, window, blocked, all_colorings, iteration,
                   cancel_event, runner, c_code, c_file, work_dir, child, new, idx,
                   exit_kind, exc>>

\* lines 105-108
W_Except ==
    /\ pc = "except"
    /\ pc' = "done"
    /\ IF cancel_event
       THEN /\ UNCHANGED events
            /\ hist' = [hist EXCEPT !.observed = TRUE]
       ELSE /\ Emit("error", <<>>, <<>>, exc)
            /\ UNCHANGED hist
    /\ UNCHANGED <<view, problem, window, blocked, all_colorings, iteration,
                   cancel_event, runner, c_code, c_file, work_dir, child, new, idx,
                   exit_kind, exc>>

Next ==
    \/ cancel
    \/ W_Start
    \/ W_WhileCancelled
    \/ W_Generate
    \/ W_GenerateFails
    \/ W_Check1
    \/ W_Construct
    \/ W_RunBegin
    \/ W_ClangExit
    \/ W_KleeExit
    \/ W_Check2
    \/ W_Parse
    \/ W_Emit
    \/ W_Finally
    \/ W_AfterLoop
    \/ W_Except

Spec == Init /\ [][Next]_vars

(***************************************************************************)
(* MainWindow._execute_klee (gui/main_window.py:458-589): the same loop    *)
(* run synchronously by the main window, started by _run_klee.             *)
(***************************************************************************)
\* find_conflict_edges raises IndexError on an edge end beyond the coloring
index_error(c, es) ==
    \E i \in 1..Len(es) : es[i][1] >= Len(c) \/ es[i][2] >= Len(c)

\* main_window.py:449-451
is_valid_coloring(c, es) ==
    \A i \in 1..Len(es) : c[es[i][1] + 1] # c[es[i][2] + 1]

RECURSIVE filter_new_valid(_, _, _)
\* main_window.py:526
\* [c for c in colorings if c not in blocked and self.is_valid_coloring(c)]
filter_new_valid(colorings, bl, es) ==
    IF colorings = <<>> THEN [raised |-> FALSE, val |-> <<>>]
    ELSE LET c == Head(colorings)
             rest == filter_new_valid(Tail(colorings), bl, es)
         IN  IF Contains(bl, c) THEN rest
             ELSE IF index_error(c, es) THEN [raised |-> TRUE, val |-> <<>>]
             ELSE IF is_valid_coloring(c, es)
                  THEN [raised |-> rest.raised,
                        val |-> IF rest.raised THEN <<>> ELSE <<c>> \o rest.val]
                  ELSE rest

\* The steps G_Start .. G_AfterLoop translate the loop of _execute_klee
\* (lines 491-589).  The call at line 479 raises before the loop is entered
\* (G_RunKlee below), so no run of the main window takes them.

\* lines 491-493
G_Start ==
    /\ pc = "g_start"
    /\ pc' = "g_while"
    /\ blocked' = <<>>
    /\ all_colorings' = <<>>
    /\ iteration' = 0
    /\ UNCHANGED <<view, problem, window, cancel_event, runner, c_code, c_file,
                   work_dir, child, new, idx, exit_kind, exc, events, hist>>

\* lines 495-512
G_Generate ==
    /\ pc = "g_while"
    /\ iteration' = iteration + 1
    /\ c_code' = generate_code(num_nodes, edges, num_colors, blocked)
    /\ c_file' = TRUE
    /\ pc' = "g_construct"
    /\ show' = [show EXCEPT !.generated_code =
                               generate_code(num_nodes, edges, num_colors, blocked)]
    /\ hist' = [hist EXCEPT !.tmp_written = TRUE, !.excl = blocked]
    /\ UNCHANGED <<view, problem, self_colorings, status, blocked, all_colorings,
                   cancel_event, runner, work_dir, child, new, idx, exit_kind, exc, events>>

\* lines 510-512 failing, outside the try block: the exception leaves
\* _execute_klee and _run_klee (lines 404-408) shows it in a message box
G_GenerateFails ==
    /\ pc = "g_while"
    /\ iteration' = iteration + 1
    /\ c_code' = generate_code(num_nodes, edges, num_colors, blocked)
    /\ \E created \in BOOLEAN : c_file' = created
    /\ pc' = "g_done"
    /\ exc' = "OSError"
    /\ status' = "Error running KLEE"
    /\ show' = [show EXCEPT !.generated_code =
                               generate_code(num_nodes, edges, num_colors, blocked)]
    /\ hist' = [hist EXCEPT !.tmp_written = FALSE, !.excl = blocked, !.failed = TRUE]
    /\ UNCHANGED <<view, problem, self_colorings, blocked, all_colorings, cancel_event,
                   runner, work_dir, child, new, idx, exit_kind, events>>

\* line 516
G_Construct == Construct("g_construct", "g_run", "g_except")

\* line 517
G_RunBegin == RunBegin("g_run", "g_clang", "g_except")

G_ClangExit == ClangExit("g_clang", "g_klee", "g_except")

G_KleeExit == KleeExit("g_klee", "g_parse", "g_except")

\* lines 519-549: parse, filter, take the first new coloring
G_Parse ==
    /\ pc = "g_parse"
    /\ LET parsed == parse_klee_results(work_dir.klee_out, num_nodes) IN
       IF parsed.raised
       THEN /\ Leave("g_except", "raise", parsed.msg)
            /\ hist' = [hist EXCEPT !.failed = TRUE]
            /\ UNCHANGED <<new, blocked, all_colorings, status>>
       ELSE LET r == filter_new_valid(parsed.val, blocked, edges)
            IN  IF r.raised
                THEN /\ Leave("g_except", "raise", "list index out of range")
                     /\ hist' = [hist EXCEPT !.failed = TRUE]
                     /\ UNCHANGED <<new, blocked, all_colorings, status>>
                ELSE /\ new' = r.val
                     /\ IF r.val = <<>>
                        THEN /\ Leave("g_finally", "break", "")
                             /\ UNCHANGED <<blocked, all_colorings, status>>
                        ELSE /\ blocked' = Append(blocked, r.val[1])
                             /\ all_colorings' = Append(all_colorings, r.val[1])
                             /\ status' = "Finding colorings..."
                             /\ Leave("g_finally", "continue", "")
                     /\ UNCHANGED hist
    /\ UNCHANGED <<view, problem, self_colorings, show, iteration, cancel_event, runner, c_code,
                   c_file, work_dir, child, idx, events>>

\* lines 551-553: the error is printed and the loop is left
G_Except ==
    /\ pc = "g_except"
    /\ Leave("g_finally", "break", exc)
    /\ UNCHANGED <<view, problem, window, blocked, all_colorings, iteration, cancel_event,
                   runner, c_code, c_file, work_dir, child, new, idx, events, hist>>

\* lines 554-555
G_Finally ==
    /\ pc = "g_finally"
    /\ c_file' = unlink(c_file)
    /\ pc' = IF exit_kind = "continue" THEN "g_while" ELSE "g_after"
    /\ exit_kind' = "none"
    /\ UNCHANGED <<view, problem, window, blocked, all_colorings, iteration, cancel_event,
                   runner, c_code, work_dir, child, new, idx, exc, events, hist>>

\* lines 556-589: the accumulated list becomes the window's result
G_AfterLoop ==
    /\ pc = "g_after"
    /\ pc' = "g_done"
    /\ self_colorings' = all_colorings
    /\ status' = IF all_colorings # <<>> THEN "Found valid coloring(s)"
                                         ELSE "No valid coloring found!"
    /\ UNCHANGED <<view, problem, show, blocked, all_colorings, iteration, cancel_event,
                   runner, c_code, c_file, work_dir, child, new, idx, exit_kind, exc,
                   events, hist>>


(***************************************************************************)
(* The tail of KleeRunner.run (runner.py:185-191) and parse_klee_results   *)
(* (ktest_parser.py:195-205) applied to a working directory as a solver    *)
(* run may leave it: any klee-out-* directories, any trace files in them.  *)
(***************************************************************************)
FileNames == 1..2
DirNames == 0..1
Mtimes == 1..2

\* the sets of *.ktest files a directory may hold
DirFiles(n, k) ==
    UNION {{{File(i, f[i]) : i \in S} : f \in [S -> TraceFiles(n, k)]} :
              S \in SUBSET FileNames}

OutDirsNamed(name, n, k) ==
    {OutDir(name, t, fs, 0) : t \in Mtimes, fs \in DirFiles(n, k)}

\* the klee-out-* entries of the working directory: none, one or two
Listings(n, k) ==
    {{}} \cup UNION {{{d} : d \in OutDirsNamed(nm, n, k)} : nm \in DirNames}
         \cup {{d0, d1} : d0 \in OutDirsNamed(0, n, k), d1 \in OutDirsNamed(1, n, k)}

InitDir ==
    /\ \E p \in {q \in Problems : q.n >= 1 /\ q.e = <<>>} :
          \E outs \in Listings(p.n, p.k) :
             EngineAt(p, "d_locate", [exists |-> TRUE, local_c |-> TRUE, bc_file |-> TRUE,
                                      outs |-> outs, klee_out |-> NoOut])
    /\ tree = NoTree
    /\ ktest = NoKtest
    /\ scene = EmptyScene

\* runner.py:185-200
D_Locate ==
    /\ pc = "d_locate"
    /\ Locate(work_dir, "d_parse", "d_done")
    /\ UNCHANGED <<view, problem, window, blocked, all_colorings, iteration, cancel_event,
                   runner, c_code, c_file, child, new, idx, events, hist>>

\* ktest_parser.py:195-205 on the directory the run returned
D_Parse ==
    /\ pc = "d_parse"
    /\ LET r == parse_klee_results(work_dir.klee_out, num_nodes) IN
       IF r.raised
       THEN /\ Leave("d_done", "raise", r.msg)
            /\ UNCHANGED new
       ELSE /\ new' = r.val
            /\ Leave("d_done", "return", "")
    /\ UNCHANGED <<view, problem, window, blocked, all_colorings, iteration, cancel_event,
                   runner, c_code, c_file, work_dir, child, idx, events, hist>>

NextDir ==
    \/ D_Locate
    \/ D_Parse

SpecDir == InitDir /\ [][NextDir]_vars

(***************************************************************************)
(* The tree index (gui/tree_view.py, models/tree_layout.py): the leaves of *)
(* the complete k-ary search tree of depth n, numbered from the left, and  *)
(* the breadth-first node ids.  The functions are applied to every         *)
(* (k, n, leaf index) within the bounds.                                   *)
(***************************************************************************)
RECURSIVE fill_backwards(_, _, _, _)
\* the loop of _leaf_index_to_coloring from position d down to 0
fill_backwards(coloring, x, k, d) ==
    IF d < 0 THEN coloring
    ELSE fill_backwards([coloring EXCEPT ![d + 1] = x % k], x \div k, k, d - 1)

\* the digits written least significant first
leaf_index_to_coloring_reversed(leaf_index, k, n) ==
    [d \in 1..n |-> fill_backwards(Zeros(n), leaf_index, k, n - 1)[n + 1 - d]]

\* tree_view.py:135-141
leaf_index_to_coloring(leaf_index, k, n) ==
    fill_backwards(Zeros(n), leaf_index, k, n - 1)

RECURSIVE fold_index(_, _, _)
\* the loop of _coloring_to_leaf_index with accumulator leaf_index
fold_index(leaf_index, coloring, k) ==
    IF coloring = <<>> THEN leaf_index
    ELSE fold_index(leaf_index * k + (Head(coloring) % k), Tail(coloring), k)

\* an index that keeps the last digit only
coloring_to_leaf_index_last(coloring, k) ==
    IF coloring = <<>> THEN 0 ELSE coloring[Len(coloring)] % k

\* tree_view.py:483-494
coloring_to_leaf_index(coloring, k) == fold_index(0, coloring, k)

\* the formula without the division by k - 1
compute_first_leaf_id_unscaled(depth, k) == k^depth - 1

\* tree_layout.py:6-16, for depth >= 0
compute_first_leaf_id(depth, k) ==
    IF k = 1 THEN depth ELSE (k^depth - 1) \div (k - 1)

\* tree_view.py:518-530
get_leaf_node_id(coloring, k, depth) ==
    LET leaf_index == coloring_to_leaf_index(coloring, k)
        first_leaf_id == IF k = 1 THEN depth ELSE (k^depth - 1) \div (k - 1)
    IN  IF depth < 0 \/ leaf_index < 0 THEN -1 ELSE first_leaf_id + leaf_index

InitTree ==
    /\ EngineAt([n |-> 0, k |-> 1, e |-> <<>>], "idle", NoWorkDir)
    /\ ktest = NoKtest
    /\ scene = EmptyScene
    /\ \E k \in 1..MaxArity, n \in 0..MaxDepth :
          \/ \E leaf_index \in 0..(k^n - 1) :
                tree = [NoTree EXCEPT !.step = "index", !.k = k, !.n = n,
                                      !.leaf_index = leaf_index]
          \/ \E a \in [1..n -> 0..(k - 1)] :
                tree = [NoTree EXCEPT !.step = "assignment", !.k = k, !.n = n,
                                      !.coloring = a]

T_ToColoring ==
    /\ tree.step = "index"
    /\ tree' = [tree EXCEPT !.step = "coloring",
                            !.coloring = leaf_index_to_coloring(tree.leaf_index, tree.k, tree.n)]
    /\ UNCHANGED <<engine, ktest, scene>>

T_ToIndex ==
    /\ tree.step = "coloring"
    /\ tree' = [tree EXCEPT !.step = "leaf",
                            !.back = coloring_to_leaf_index(tree.coloring, tree.k)]
    /\ UNCHANGED <<engine, ktest, scene>>

T_NodeId ==
    /\ tree.step = "leaf"
    /\ tree' = [tree EXCEPT !.step = "done",
                            !.first_leaf = compute_first_leaf_id(tree.n, tree.k),
                            !.node_id = get_leaf_node_id(tree.coloring, tree.k, tree.n)]
    /\ UNCHANGED <<engine, ktest, scene>>

\* _coloring_to_leaf_index applied to an assignment
T_Leaf ==
    /\ tree.step = "assignment"
    /\ tree' = [tree EXCEPT !.step = "placed",
                            !.back = coloring_to_leaf_index(tree.coloring, tree.k),
                            !.node_id = get_leaf_node_id(tree.coloring, tree.k, tree.n)]
    /\ UNCHANGED <<engine, ktest, scene>>

\* _leaf_index_to_coloring applied to the index of the assignment
T_Spell ==
    /\ tree.step = "placed"
    /\ tree' = [tree EXCEPT !.step = "spelled",
                            !.spelled = leaf_index_to_coloring(tree.back, tree.k, tree.n)]
    /\ UNCHANGED <<engine, ktest, scene>>

NextTree ==
    \/ T_ToColoring
    \/ T_ToIndex
    \/ T_NodeId
    \/ T_Leaf
    \/ T_Spell

SpecTree == InitTree /\ [][NextTree]_vars

(***************************************************************************)
(* The tree itself: build_full_tree (tree_view.py:325-480) and             *)
(* compute_tree_model_levels_positions (tree_layout.py:19-64) applied to   *)
(* every (k, n) within the bounds and to the two arities around the        *)
(* rendering cap, then a click on any node of the tree that was built.     *)
(* A node is [id, depth, index_in_level]; _node_items maps an id to its    *)
(* item [node, parent, is_viable, is_invalid], parent being the id of the  *)
(* parent item and -1 for the root; -1 stands for None in _tree_k.         *)
(***************************************************************************)
\* tree_view.py:335
RenderCap == 2000

\* the ids counted from 0 again on every level
make_levels_restarting(levels, node_id, d, depth, k) ==
    [l \in 1..(depth + 1) |->
        [i \in 1..(k^(l - 1)) |-> [id |-> i - 1, depth |-> l - 1, index_in_level |-> i - 1]]]

RECURSIVE make_levels(_, _, _, _, _)
\* the loop "for d in range(depth + 1)" with its counter node_id
\* (tree_view.py:384-391, tree_layout.py:35-41), from level d on
make_levels(levels, node_id, d, depth, k) ==
    IF d > depth THEN levels
    ELSE make_levels(
            Append(levels,
                   [i \in 1..(k^d) |->
                       [id |-> node_id + i - 1, depth |-> d, index_in_level |-> i - 1]]),
            node_id + k^d, d + 1, depth, k)

\* tree_layout.py:19-64; the positions are a function of the levels and are
\* left out
compute_tree_model_levels_positions(depth, k) ==
    IF depth < 0 \/ k < 1 THEN [raised |-> TRUE, levels |-> <<>>]
    ELSE [raised |-> FALSE, levels |-> make_levels(<<>>, 0, 0, depth, k)]

\* a guard that lets every tree through
too_large_never(n, k) == FALSE

\* tree_view.py:335
too_large(n, k) == n > 0 /\ k^n > RenderCap

\* all nodes of the levels
NodesOf(levels) == UNION {Range(levels[l]) : l \in 1..Len(levels)}

\* tree_view.py:451-473 with viable_colorings None: every leaf is drawn as
\* not viable, every item knows the item of its parent
node_items_of(levels, n, k) ==
    LET nodes == NodesOf(levels)
    IN  [id \in {nd.id : nd \in nodes} |->
            LET node == CHOOSE nd \in nodes : nd.id = id
            IN  [node |-> node,
                 parent |-> IF node.depth > 0
                            THEN levels[node.depth][(node.index_in_level \div k) + 1].id
                            ELSE -1,
                 is_viable |-> FALSE,
                 is_invalid |-> node.depth = n]]

\* tree_view.py:407-409
coloring_map_of(levels, n, k) ==
    LET leaf_nodes == levels[Len(levels)]
    IN  [id \in {leaf_nodes[i].id : i \in 1..Len(leaf_nodes)} |->
            LET i == CHOOSE j \in 1..Len(leaf_nodes) : leaf_nodes[j].id = id
            IN  leaf_index_to_coloring(i - 1, k, n)]

\* tree_view.py:325-480 on the widget state t
build_full_tree(t, n, k) ==
    LET stored == [t EXCEPT !.tree_k = k, !.tree_depth = n,
                            !.node_items = <<>>, !.coloring_map = <<>>]
        levels == make_levels(<<>>, 0, 0, n, k)
    IN  IF too_large(n, k) \/ n < 0 \/ k < 1 THEN stored
        ELSE [stored EXCEPT !.node_items = node_items_of(levels, n, k),
                            !.coloring_map = coloring_map_of(levels, n, k)]

RECURSIVE path_to(_, _)
\* tree_view.py:191-201: the (depth, index_in_level) pairs from the root
\* down to the item
path_to(items, id) ==
    LET here == <<items[id].node.depth, items[id].node.index_in_level>>
    IN  IF items[id].parent = -1 THEN <<here>>
        ELSE Append(path_to(items, items[id].parent), here)

RECURSIVE walk_path(_, _, _, _)
\* the loop of lines 224-235 from step i on
walk_path(coloring, path, k, i) ==
    IF i > Len(path) THEN coloring
    ELSE LET prev_depth == path[i - 1][1]
             prev_idx == path[i - 1][2]
             curr_depth == path[i][1]
             curr_idx == path[i][2]
             child_number == curr_idx - prev_idx * k
         IN  walk_path(IF curr_depth = prev_depth + 1 /\ 0 <= child_number /\ child_number < k
                       THEN [coloring EXCEPT ![curr_depth + 1] = child_number]
                       ELSE coloring,
                       path, k, i + 1)

\* tree_view.py:208-237
get_partial_coloring_from_path(path, k) ==
    IF path = <<>> THEN <<>>
    ELSE walk_path(Zeros(path[Len(path)][1] + 1), path, k, 2)

\* tree_view.py:182-206, for a widget whose _tree_k is set
get_partial_coloring(t, id) ==
    get_partial_coloring_from_path(path_to(t.node_items, id), t.tree_k)

\* the largest arity whose tree of depth 2 is drawn
CapArity == CHOOSE k \in 1..RenderCap : k^2 <= RenderCap /\ (k + 1)^2 > RenderCap

TreeSizes ==
    {<<k, n>> : k \in 1..MaxArity, n \in 0..MaxDepth} \cup {<<CapArity, 2>>, <<CapArity + 1, 2>>}

InitBuild ==
    /\ EngineAt([n |-> 0, k |-> 1, e |-> <<>>], "idle", NoWorkDir)
    /\ ktest = NoKtest
    /\ scene = EmptyScene
    /\ \E s \in TreeSizes : tree = [NoTree EXCEPT !.step = "size", !.k = s[1], !.n = s[2]]

B_Build ==
    /\ tree.step = "size"
    /\ tree' = [build_full_tree(tree, tree.n, tree.k) EXCEPT !.step = "built"]
    /\ UNCHANGED <<engine, ktest, scene>>

B_Model ==
    /\ tree.step = "built"
    /\ tree' = [tree EXCEPT !.step = "modelled",
                            !.model = compute_tree_model_levels_positions(tree.n, tree.k)]
    /\ UNCHANGED <<engine, ktest, scene>>

\* a click on an item of the tree (tree_view.py:64-95)
B_Click ==
    /\ tree.step = "modelled"
    /\ \E id \in DOMAIN tree.node_items :
          tree' = [tree EXCEPT !.step = "clicked", !.clicked = id,
                               !.partial = get_partial_coloring(tree, id)]
    /\ UNCHANGED <<engine, ktest, scene>>

NextBuild ==
    \/ B_Build
    \/ B_Model
    \/ B_Click

SpecBuild == InitBuild /\ [][NextBuild]_vars

(***************************************************************************)
(* The main window (gui/main_window.py) with its graph editor              *)
(* (gui/graph_scene.py, gui/actions.py).  A node is [id, x, y, color], an  *)
(* edge [source, target].  The editor operations                           *)
(* are functions from scene to scene; `changed` tells whether              *)
(* graph_changed was emitted.                                              *)
(***************************************************************************)
\* editor operations per window
MaxEdits == 5

\* node drags among them
MaxMoves == 1

\* actions.py:10
max_history == 50

\* graph_scene.py:78-84
get_current_state(s) ==
    [nodes |-> s.nodes, edges |-> s.edges, next_node_id |-> s.next_node_id]

save_state_uncapped(s, state) ==
    [s EXCEPT !.undo_stack = Append(s.undo_stack, state), !.redo_stack = <<>>]

\* actions.py:16-31
save_state(s, state) ==
    LET pushed == Append(s.undo_stack, state)
    IN  [s EXCEPT !.undo_stack = IF Len(pushed) > max_history THEN Tail(pushed) ELSE pushed,
                  !.redo_stack = <<>>]

\* graph_scene.py:136-138
GraphScene_save_state(s) == save_state(s, get_current_state(s))

\* graph_scene.py:89-103
get_state_with_node_at(s, node_id, x, y) ==
    [nodes |-> [i \in 1..Len(s.nodes) |->
                   IF s.nodes[i].id = node_id
                   THEN [s.nodes[i] EXCEPT !.x = x, !.y = y] ELSE s.nodes[i]],
     edges |-> s.edges, next_node_id |-> s.next_node_id]

\* graph_scene.py:140-146
save_move_state(s, node_id, old_x, old_y) ==
    save_state(s, get_state_with_node_at(s, node_id, old_x, old_y))

\* graph_scene.py:105-134
restore_state(s, state) ==
    [s EXCEPT !.nodes = state.nodes, !.edges = state.edges,
              !.next_node_id = state.next_node_id]

NodeIds(s) == {s.nodes[i].id : i \in 1..Len(s.nodes)}

\* graph_scene.py:167-185
add_node(s, x, y) ==
    LET saved == GraphScene_save_state(s)
        new_id == CHOOSE i \in 0..Len(s.nodes) :
                     i \notin NodeIds(s) /\ \A j \in 0..(i - 1) : j \in NodeIds(s)
    IN  [saved EXCEPT !.nodes = Append(s.nodes, [id |-> new_id, x |-> x, y |-> y, color |-> -1]),
                      !.next_node_id = IF s.next_node_id > new_id + 1
                                       THEN s.next_node_id ELSE new_id + 1]

add_edge_one_way(s, source_id, target_id) ==
    IF source_id = target_id THEN s
    ELSE IF \E i \in 1..Len(s.edges) :
               s.edges[i].source = source_id /\ s.edges[i].target = target_id
         THEN s
         ELSE [GraphScene_save_state(s) EXCEPT
                  !.edges = Append(s.edges, [source |-> source_id, target |-> target_id])]

\* graph_scene.py:207-226; the result is s itself when add_edge returns None
add_edge(s, source_id, target_id) ==
    IF source_id = target_id THEN s
    ELSE IF \E i \in 1..Len(s.edges) :
               \/ s.edges[i].source = source_id /\ s.edges[i].target = target_id
               \/ s.edges[i].source = target_id /\ s.edges[i].target = source_id
         THEN s
         ELSE [GraphScene_save_state(s) EXCEPT
                  !.edges = Append(s.edges, [source |-> source_id, target |-> target_id])]

delete_node_no_save_keeping_edges(s, node_id) ==
    IF node_id \notin NodeIds(s) THEN s
    ELSE [s EXCEPT !.edges = SelectSeq(s.edges, LAMBDA e : e.source # node_id),
                   !.nodes = SelectSeq(s.nodes, LAMBDA nd : nd.id # node_id)]

\* graph_scene.py:330-361
delete_node_no_save(s, node_id) ==
    IF node_id \notin NodeIds(s) THEN s
    ELSE [s EXCEPT !.edges = SelectSeq(s.edges, LAMBDA e : e.source # node_id /\ e.target # node_id),
                   !.nodes = SelectSeq(s.nodes, LAMBDA nd : nd.id # node_id)]

\* graph_scene.py:271-307
delete_node(s, node_id) ==
    IF node_id \notin NodeIds(s) THEN s
    ELSE delete_node_no_save(GraphScene_save_state(s), node_id)

RECURSIVE delete_each(_, _)
\* the loop of lines 325-326
delete_each(s, ids) ==
    IF ids = {} THEN s
    ELSE LET id == CHOOSE i \in ids : TRUE
         IN  delete_each(delete_node_no_save(s, id), ids \ {id})

\* graph_scene.py:309-328 with the node items `selected` selected
delete_selected_nodes(s, selected) ==
    IF selected = {} THEN s ELSE delete_each(GraphScene_save_state(s), selected)

\* graph_scene.py:362-388
clear_graph(s) ==
    IF s.nodes = <<>> /\ s.edges = <<>> THEN s
    ELSE [GraphScene_save_state(s) EXCEPT !.nodes = <<>>, !.edges = <<>>, !.next_node_id = 0]

\* graph_scene.py:148-152 with actions.py:33-46
undo(s) ==
    IF s.undo_stack = <<>> THEN s
    ELSE [restore_state(s, s.undo_stack[Len(s.undo_stack)]) EXCEPT
             !.redo_stack = Append(s.redo_stack, get_current_state(s)),
             !.undo_stack = SubSeq(s.undo_stack, 1, Len(s.undo_stack) - 1)]

redo_forgetting(s) ==
    IF s.redo_stack = <<>> THEN s
    ELSE [restore_state(s, s.redo_stack[Len(s.redo_stack)]) EXCEPT
             !.redo_stack = SubSeq(s.redo_stack, 1, Len(s.redo_stack) - 1)]

\* graph_scene.py:154-158 with actions.py:48-61
redo(s) ==
    IF s.redo_stack = <<>> THEN s
    ELSE [restore_state(s, s.redo_stack[Len(s.redo_stack)]) EXCEPT
             !.undo_stack = Append(s.undo_stack, get_current_state(s)),
             !.redo_stack = SubSeq(s.redo_stack, 1, Len(s.redo_stack) - 1)]

\* graph_scene.py:430-432
get_edges_as_tuples(s) == [i \in 1..Len(s.edges) |-> <<s.edges[i].source, s.edges[i].target>>]

\* tree_view.py:249-254
clear_tree(t) == [t EXCEPT !.node_items = <<>>, !.coloring_map = <<>>]

\* one editor operation with result s2: the scene is replaced and, when
\* graph_changed was emitted, _on_graph_changed (main_window.py:342-348)
\* drops the results and the tree; `reset` tells whether the handler sets
\* _generated_code to None
Edited(s2, changed, reset) ==
    /\ pc = "g_idle"
    /\ scene.edits < MaxEdits
    /\ scene' = [s2 EXCEPT !.edits = scene.edits + 1]
    /\ self_colorings' = IF changed THEN <<>> ELSE self_colorings
    /\ tree' = IF changed THEN clear_tree(tree) ELSE tree
    /\ show' = [generated_code |-> IF reset THEN NoCode ELSE show.generated_code,
                dialog |-> NoCode]
    /\ UNCHANGED <<problem, status, ktest, pc, blocked, all_colorings, iteration,
                   cancel_event, runner, c_code, c_file, work_dir, child, new, idx,
                   exit_kind, exc, events, hist>>

\* models/coloring.py:6
NODE_RADIUS == 22

\* scene coordinates where the mouse button is released: two places a
\* pixel apart and two away from both
Xs == {0, 1, 100, 200}
Ys == {0}

\* where it is pressed to add a node: the places lie further apart than a
\* node item is wide, and the leftmost free one is taken
ClickXs == {0, 100, 200}

\* graph_scene.py:193-198: does some node item contain the point
node_at(s, x, y) ==
    \E i \in 1..Len(s.nodes) :
        (x - s.nodes[i].x) * (x - s.nodes[i].x) + (y - s.nodes[i].y) * (y - s.nodes[i].y)
            <= NODE_RADIUS * NODE_RADIUS

\* a click with the ADD_NODE tool on a free place of the canvas
\* (graph_scene.py:439-442)
E_AddNode ==
    \E x \in ClickXs, y \in Ys :
        /\ ~ node_at(scene, x, y)
        /\ \A left \in ClickXs : left < x => node_at(scene, left, y)
        /\ Edited(add_node(scene, x, y), TRUE, FALSE)

\* NodeItem.itemChange (node_item.py:86-95): the node follows its item
set_position(s, node_id, x, y) ==
    [s EXCEPT !.nodes = [i \in 1..Len(s.nodes) |->
                            IF s.nodes[i].id = node_id
                            THEN [s.nodes[i] EXCEPT !.x = x, !.y = y] ELSE s.nodes[i]]]

abs(v) == IF v < 0 THEN -v ELSE v

\* a node item dragged from (old_x, old_y) and released at (x, y)
\* (node_item.py:97-127)
drag(s, node_id, old_x, old_y, x, y) ==
    LET moved == set_position(s, node_id, x, y)
    IN  IF abs(x - old_x) > 1 \/ abs(y - old_y) > 1
        THEN save_move_state(moved, node_id, old_x, old_y)
        ELSE moved

E_MoveNode ==
    \E i \in 1..Len(scene.nodes), x \in Xs, y \in Ys :
        /\ scene.moves < MaxMoves
        /\ <<x, y>> # <<scene.nodes[i].x, scene.nodes[i].y>>
        /\ Edited([drag(scene, scene.nodes[i].id, scene.nodes[i].x, scene.nodes[i].y, x, y)
                       EXCEPT !.moves = scene.moves + 1],
                  FALSE, FALSE)

\* two clicks on nodes with the ADD_EDGE tool (graph_scene.py:257-261)
E_AddEdge ==
    \E a \in NodeIds(scene), b \in NodeIds(scene) :
        /\ a # b
        /\ Edited(add_edge(scene, a, b), add_edge(scene, a, b) # scene, FALSE)

E_DeleteNode ==
    \E id \in NodeIds(scene) : Edited(delete_node(scene, id), TRUE, FALSE)

\* Delete or Backspace with some node items selected (graph_scene.py:461-464)
E_DeleteSelected ==
    \E selected \in SUBSET NodeIds(scene) :
        /\ selected # {}
        /\ Edited(delete_selected_nodes(scene, selected), TRUE, FALSE)

\* main_window.py:334-340: the results and the tree are dropped and the
\* status bar is written whether or not the graph held anything
E_ClearGraph ==
    /\ pc = "g_idle"
    /\ scene.edits < MaxEdits
    /\ scene' = [clear_graph(scene) EXCEPT !.edits = scene.edits + 1]
    /\ self_colorings' = <<>>
    /\ tree' = clear_tree(tree)
    /\ show' = [generated_code |-> NoCode, dialog |-> NoCode]
    /\ status' = "Graph cleared"
    /\ UNCHANGED <<problem, ktest, pc, blocked, all_colorings, iteration,
                   cancel_event, runner, c_code, c_file, work_dir, child, new, idx,
                   exit_kind, exc, events, hist>>

\* main_window.py:315-318; restored or not, the state returned by the
\* manager decides whether graph_changed is emitted
E_Undo == Edited(undo(scene), scene.undo_stack # <<>>, TRUE)

\* main_window.py:320-323
E_Redo == Edited(redo(scene), scene.redo_stack # <<>>, TRUE)

\* the parameters of build_full_tree (tree_view.py:325); the first two
\* have no default
BuildParams == {"num_nodes", "k", "viable_colorings"}
BuildRequired == {"num_nodes", "k"}

\* a call of build_full_tree with keyword arguments kwargs: Python raises
\* TypeError for a keyword that names no parameter and for a parameter
\* without default that is given no value
call_build_full_tree(t, kwargs) ==
    IF DOMAIN kwargs \subseteq BuildParams /\ BuildRequired \subseteq DOMAIN kwargs
    THEN [raised |-> FALSE, tree |-> build_full_tree(t, kwargs.num_nodes, kwargs.k)]
    ELSE [raised |-> TRUE, tree |-> t]

\* main_window.py:474-475
tree_depth(n) == IF n - 1 > 0 THEN n - 1 ELSE 0
tree_k(colors) == IF colors > 1 THEN colors ELSE 1

\* MainWindow.__init__: an empty editor, the colour count of the spin box
InitGui ==
    /\ \E colors \in ColorCounts : EngineAt([n |-> 0, k |-> colors, e |-> <<>>], "g_idle", NoWorkDir)
    /\ tree = NoTree
    /\ ktest = NoKtest
    /\ scene = EmptyScene

\* the RUN KLEE button: _run_klee (main_window.py:380-411) and
\* _execute_klee (lines 458-480) up to the call of build_full_tree
G_RunKlee ==
    /\ pc = "g_idle"
    /\ IF Len(scene.nodes) = 0 \/ Len(scene.edges) = 0
       THEN UNCHANGED <<num_nodes, edges, status, exc, tree, pc>>
       ELSE LET built == call_build_full_tree(
                            tree, [depth |-> tree_depth(Len(scene.nodes)),
                                   k |-> tree_k(num_colors),
                                   viable_colorings |-> <<>>])
            IN  /\ num_nodes' = Len(scene.nodes)
                /\ edges' = get_edges_as_tuples(scene)
                /\ tree' = built.tree
                /\ IF built.raised
                   THEN /\ exc' = "TypeError"
                        /\ status' = "Error running KLEE"
                        /\ pc' = "g_idle"
                   ELSE /\ status' = "Running KLEE..."
                        /\ pc' = "g_start"
                        /\ UNCHANGED exc
    /\ show' = [show EXCEPT !.dialog = NoCode]
    /\ UNCHANGED <<num_colors, self_colorings, ktest, scene, blocked, all_colorings,
                   iteration, cancel_event, runner, c_code, c_file, work_dir, child, new,
                   idx, exit_kind, events, hist>>

\* main_window.py:351-360
window_generate_code ==
    generate_code(Len(scene.nodes), get_edges_as_tuples(scene), num_colors, <<>>)

\* the Show Code button (main_window.py:363-377)
G_ShowCode ==
    /\ pc = "g_idle"
    /\ Len(scene.nodes) # 0 /\ Len(scene.edges) # 0
    /\ LET text == IF show.generated_code = NoCode THEN window_generate_code
                   ELSE show.generated_code
       IN  show' = [generated_code |-> text, dialog |-> text]
    /\ UNCHANGED <<problem, self_colorings, status, view, pc, blocked, all_colorings,
                   iteration, cancel_event, runner, c_code, c_file, work_dir, child, new,
                   idx, exit_kind, exc, events, hist>>

\* a new value in the colour spin box (main_window.py:255-257); no slot
\* is connected to it
G_SetColors ==
    /\ pc = "g_idle"
    /\ \E colors \in ColorCounts \ {num_colors} : num_colors' = colors
    /\ show' = [show EXCEPT !.dialog = NoCode]
    /\ UNCHANGED <<num_nodes, edges, self_colorings, status, view, pc, blocked, all_colorings,
                   iteration, cancel_event, runner, c_code, c_file, work_dir, child, new,
                   idx, exit_kind, exc, events, hist>>

NextGui ==
    \/ G_ShowCode
    \/ G_SetColors
    \/ E_AddNode
    \/ E_MoveNode
    \/ E_AddEdge
    \/ E_DeleteNode
    \/ E_DeleteSelected
    \/ E_ClearGraph
    \/ E_Undo
    \/ E_Redo
    \/ G_RunKlee

SpecGui == InitGui /\ [][NextGui]_vars

(***************************************************************************)
(* The history of one editor (gui/actions.py) over more edits than         *)
(* max_history: nodes are added one after the other, edits are undone and  *)
(* redone and the history is cleared.                                      *)
(***************************************************************************)
\* nodes added to one scene
MaxSaves == 52

\* actions.py:71-75
clear(s) == [s EXCEPT !.undo_stack = <<>>, !.redo_stack = <<>>]

InitHistory ==
    /\ EngineAt([n |-> 0, k |-> 1, e |-> <<>>], "idle", NoWorkDir)
    /\ tree = NoTree
    /\ ktest = NoKtest
    /\ scene = EmptyScene

H_AddNode ==
    /\ Len(scene.nodes) < MaxSaves
    /\ scene' = add_node(scene, 0, 0)
    /\ UNCHANGED <<engine, tree, ktest>>

H_Undo ==
    /\ scene.undo_stack # <<>>
    /\ scene' = undo(scene)
    /\ UNCHANGED <<engine, tree, ktest>>

H_Redo ==
    /\ scene.redo_stack # <<>>
    /\ scene' = redo(scene)
    /\ UNCHANGED <<engine, tree, ktest>>

H_Clear ==
    /\ scene.undo_stack # <<>> \/ scene.redo_stack # <<>>
    /\ scene' = clear(scene)
    /\ UNCHANGED <<engine, tree, ktest>>

NextHistory ==
    \/ H_AddNode
    \/ H_Undo
    \/ H_Redo
    \/ H_Clear

SpecHistory == InitHistory /\ [][NextHistory]_vars

(***************************************************************************)
(* parse_ktest_output (ktest_parser.py:48-120) applied to the text that    *)
(* ktest-tool prints for a trace.  A trace is a sequence of records        *)
(* [name, words, tail]: the payload is the bytes of the 32-bit words       *)
(* followed by the tail bytes.  A line of the text is represented by which *)
(* of the parser's patterns it matches and by the groups they capture.     *)
(***************************************************************************)
Word0 == <<0, 0, 0, 0>>
Word1 == <<1, 0, 0, 0>>
WordQuote == <<39, 0, 0, 0>>
WordMinus1 == <<255, 255, 255, 255>>
WordMin == <<0, 0, 0, 128>>

\* the 32-bit words payloads are built from; 39 is the byte of the quote '
PlainWords == {Word0, Word1, WordMinus1, WordMin}

\* payloads as [words, tail]: whole words, then the bytes of an incomplete
\* word; 8-byte payloads holding a quote are kept to the one whose 64-bit
\* value stays within the integers of the checker
Payloads ==
    {[words |-> <<>>, tail |-> t] : t \in {<<>>, <<1>>, <<39>>, <<1, 0, 0>>}}
    \cup {[words |-> <<w>>, tail |-> <<>>] : w \in PlainWords \cup {WordQuote}}
    \cup {[words |-> <<w1, w2>>, tail |-> <<>>] : w1 \in PlainWords, w2 \in PlainWords}
    \cup {[words |-> <<WordQuote, Word0>>, tail |-> <<>>],
          [words |-> <<Word1>>, tail |-> <<1>>]}

RecordNames == {"color", "aux"}

Records == {[name |-> nm, words |-> p.words, tail |-> p.tail] :
               nm \in RecordNames, p \in Payloads}

RECURSIVE Flatten(_)
Flatten(words) == IF words = <<>> THEN <<>> ELSE Head(words) \o Flatten(Tail(words))

\* the bytes of a record
Payload(r) == Flatten(r.words) \o r.tail

RECURSIVE signed_le(_)
\* little-endian two's-complement value of a non-empty byte string
\* (struct formats b, h, i, q)
signed_le(bytes) ==
    IF Len(bytes) = 1
    THEN (IF bytes[1] >= 128 THEN bytes[1] - 256 ELSE bytes[1])
    ELSE bytes[1] + 256 * signed_le(Tail(bytes))

\* repr() of a bytes object is written with double quotes when it holds a
\* quote ' and no double quote
repr_quote(bytes) ==
    IF 39 \in Range(bytes) /\ 34 \notin Range(bytes) THEN "double" ELSE "single"

\* the lines ktest-tool prints for one object: name, size, data, hex, the
\* int and uint lines for objects of 1, 2, 4 or 8 bytes, text
lines_of(r) ==
    LET bytes == Payload(r) IN
    << [kind |-> "name", name |-> r.name],
       [kind |-> "size", size |-> Len(bytes)],
       [kind |-> "data", bytes |-> bytes, quote |-> repr_quote(bytes)],
       [kind |-> "other"] >>
    \o (IF Len(bytes) \in {1, 2, 4, 8}
        THEN << [kind |-> "int", bytes |-> bytes], [kind |-> "other"] >>
        ELSE <<>>)
    \o << [kind |-> "other"] >>

RECURSIVE run_ktest_tool(_)
\* stdout of ktest-tool for the records of a trace, after the header lines
run_ktest_tool(records) ==
    IF records = <<>> THEN <<>>
    ELSE lines_of(Head(records)) \o run_ktest_tool(Tail(records))

\* objects[name] = values
Put(objects, name, values) ==
    {o \in objects : o[1] # name} \cup {<<name, values>>}

\* struct.unpack("<" + "i" * count, raw_bytes[:4 * count])
unpack(bytes, count) ==
    [i \in 1..count |-> signed_le(SubSeq(bytes, 4 * i - 3, 4 * i))]

\* lines 93-103: the payload of a data line under the declared size
decode_data(bytes, current_size, objects, current_name) ==
    IF current_size % 4 = 0 /\ Len(bytes) >= current_size
    THEN Put(objects, current_name, unpack(bytes, current_size \div 4))
    ELSE objects

RECURSIVE parse_lines(_, _, _, _)
\* the loop of lines 67-109; current_name = "" and current_size = -1 stand
\* for None
parse_lines(lines, current_name, current_size, objects) ==
    IF lines = <<>> THEN objects
    ELSE LET l == Head(lines)
             rest == Tail(lines)
         IN  IF l.kind = "name"
             THEN parse_lines(rest, l.name, -1, objects)
             ELSE IF l.kind = "size" /\ current_name # ""
             THEN parse_lines(rest, current_name, l.size, objects)
             ELSE IF l.kind = "int" /\ current_name # ""
             THEN parse_lines(rest, "", -1,
                              Put(objects, current_name, <<signed_le(l.bytes)>>))
             ELSE IF /\ l.kind = "data"
                     /\ l.quote = "single"
                     /\ current_name # ""
                     /\ current_size # -1
             THEN parse_lines(rest, "", -1,
                              decode_data(l.bytes, current_size, objects, current_name))
             ELSE parse_lines(rest, current_name, current_size, objects)

\* KTestResult.objects of parse_ktest_output(output, path)
parse_ktest_output(lines) == parse_lines(lines, "", -1, {})

\* traces of one record, or of two records with different names
InitKtest ==
    /\ EngineAt([n |-> 0, k |-> 1, e |-> <<>>], "idle", NoWorkDir)
    /\ tree = NoTree
    /\ scene = EmptyScene
    /\ \E rs \in {<<r>> : r \in Records}
                  \cup {p \in Records \X Records : p[1].name # p[2].name} :
          ktest = [NoKtest EXCEPT !.step = "written", !.records = rs]

\* ktest_parser.py:17-46
K_Tool ==
    /\ ktest.step = "written"
    /\ ktest' = [ktest EXCEPT !.step = "printed", !.lines = run_ktest_tool(ktest.records)]
    /\ UNCHANGED <<engine, tree, scene>>

\* ktest_parser.py:48-120
K_Parse ==
    /\ ktest.step = "printed"
    /\ ktest' = [ktest EXCEPT !.step = "parsed", !.objects = parse_ktest_output(ktest.lines)]
    /\ UNCHANGED <<engine, tree, scene>>

NextKtest ==
    \/ K_Tool
    \/ K_Parse

SpecKtest == InitKtest /\ [][NextKtest]_vars

(***************************************************************************)
(* Properties.                                                             *)
(***************************************************************************)
Count(sig) == Cardinality({i \in 1..Len(events) : events[i].sig = sig})

FoundAt(i) == events[i].sig = "found"

Emitted == {events[i].coloring : i \in {j \in 1..Len(events) : FoundAt(j)}}

EmittedOnce ==
    \A i, j \in 1..Len(events) :
        (i < j /\ FoundAt(i) /\ FoundAt(j)) => events[i].coloring # events[j].coloring

Finished == pc = "done" /\ Count("finished") = 1

\* the iteration most recently started has run its course
IterationEnded == iteration >= 1 /\ pc \in {"while", "after_loop", "except", "done"}

\* C1: with a solver that returns an unblocked feasible assignment whenever
\* one exists, a session that ends with `finished` has emitted exactly the
\* feasible assignments of the problem, each of them once.
C1_ExactEnumeration ==
    (Finished /\ hist.solver_complete) =>
        /\ Emitted = Feasible(num_nodes, num_colors, edges)
        /\ EmittedOnce

\* C2: a session that is neither cancelled nor failed performs at most
\* (number of feasible assignments) + 1 iterations.
C2_IterationBound ==
    (~cancel_event /\ ~hist.failed) =>
        iteration <= Cardinality(Feasible(num_nodes, num_colors, edges)) + 1

\* C3: an assignment emitted in one iteration is never emitted again by a
\* later iteration, and no candidate accepted from an iteration's traces is
\* in the exclusion list its program was generated from.
C3_BlockingCorrect ==
    /\ \A i, j \in 1..Len(events) :
          (FoundAt(i) /\ FoundAt(j) /\ events[i].iter < events[j].iter)
              => events[i].coloring # events[j].coloring
    /\ pc = "emit" => \A i \in 1..Len(new) : ~Contains(c_code.blocking, new[i])

\* a later iteration whose traces repeat a blocked assignment and bring a new one
C3_Witness ==
    /\ pc = "emit"
    /\ iteration >= 2
    /\ \E c \in Range(get_all_colorings(parse_all(work_dir.klee_out.ktests), num_nodes)) :
          Contains(c_code.blocking, c)

\* C4: a cancel() issued while a subprocess is in flight ends the session
\* with a `cancelled` event and no `finished` event, and nothing is started
\* once the flag has been observed.
C4_CancelInFlight ==
    (pc = "done" /\ hist.cancel_in_flight) =>
        /\ Count("cancelled") = 1
        /\ Count("finished") = 0
        /\ ~hist.late_start

\* C5: a cancel() issued while the driver's child process runs terminates
\* that process at once, and the driver's run ends with a cancellation
\* outcome, neither returning a result nor raising an error.
C5_CancelTerminatesChild ==
    hist.cancel_in_flight =>
        /\ child = "none"
        /\ hist.run_outcome \in {"running", "cancelled"}

\* C6: a session in which a stage failed ends with exactly one failure
\* notification carrying the diagnostic, emits no `finished` event and does
\* not publish the partially accumulated list as its result.
C6_FailureReported ==
    /\ (pc = "done" /\ hist.failed) =>
          /\ Count("error") = 1
          /\ Count("finished") = 0
          /\ events[Len(events)].sig = "error" /\ events[Len(events)].msg = exc
    /\ (pc = "g_done" /\ hist.failed) =>
          /\ status # "Found valid coloring(s)"
          /\ self_colorings = <<>>

\* C7: every assignment emitted by `found`, and every assignment of the
\* `finished` list, satisfies all pair constraints of the problem.
C7_OnlyValidEmitted ==
    \A i \in 1..Len(events) :
        /\ FoundAt(i) => SatisfiesEdges(events[i].coloring, edges)
        /\ events[i].sig = "finished" =>
              \A j \in 1..Len(events[i].list) : SatisfiesEdges(events[i].list[j], edges)

\* C8: the exclusion list never holds the same assignment twice.
C8_NoDuplicates ==
    \A i, j \in 1..Len(blocked) : i < j => blocked[i] # blocked[j]

\* C9: every assignment appended to the exclusion list or emitted has
\* exactly num_nodes entries.
C9_LengthIsN ==
    /\ \A i \in 1..Len(blocked) : Len(blocked[i]) = num_nodes
    /\ \A i \in 1..Len(events) : FoundAt(i) => Len(events[i].coloring) = num_nodes

Decodable(files, n) ==
    {f \in files : f.ok /\ ~scalar_index_error(f.objects, n)
                        /\ get_coloring(f.objects, n).some
                        /\ get_coloring(f.objects, n).val # <<>>}

\* C11: the parse of a located trace directory, whatever its files hold,
\* lets no exception escape and yields one assignment per well-formed file
\* with a decodable assignment, in ascending file-name order.
C11_ParserIsolation ==
    (pc = "d_done" /\ work_dir.klee_out.exists) =>
        /\ exit_kind = "return"
        /\ Len(new) = Cardinality(Decodable(work_dir.klee_out.files, num_nodes))
        /\ \A f, g \in Decodable(work_dir.klee_out.files, num_nodes) :
              f.name < g.name =>
                 \E i, j \in 1..Len(new) :
                    /\ i < j
                    /\ new[i] = get_coloring(f.objects, num_nodes).val
                    /\ new[j] = get_coloring(g.objects, num_nodes).val

\* C12: for every k >= 1, n >= 0 and leaf index idx in [0, k^n), converting
\* idx to a coloring and the coloring back to a leaf index gives idx again.
C12_RoundTrip ==
    tree.step \in {"leaf", "done"} =>
        /\ Len(tree.coloring) = tree.n
        /\ tree.back = tree.leaf_index

\* a round trip through a coloring whose digits are not a palindrome
C12_Witness ==
    /\ tree.step = "leaf"
    /\ tree.k = 3
    /\ tree.n = 3
    /\ tree.coloring = <<0, 1, 2>>
    /\ tree.back = 5

RECURSIVE LevelsBefore(_, _)
\* number of nodes in levels 0..depth-1 of the complete k-ary tree
LevelsBefore(depth, k) ==
    IF depth = 0 THEN 0 ELSE LevelsBefore(depth - 1, k) + k^(depth - 1)

\* C13: compute_first_leaf_id(depth, k) is the number of nodes in the levels
\* above depth (7 for depth 3, k = 2; 4 for depth 4, k = 1), and the node id
\* _get_leaf_node_id computes inline is that id plus the leaf index.
C13_FirstLeafFormula ==
    tree.step = "done" =>
        /\ tree.first_leaf = LevelsBefore(tree.n, tree.k)
        /\ (tree.n = 3 /\ tree.k = 2) => tree.first_leaf = 7
        /\ (tree.n = 4 /\ tree.k = 1) => tree.first_leaf = 4
        /\ tree.node_id = tree.first_leaf + tree.back

\* the last leaf of the ternary tree of depth 2: ids 0, 1..3, 4..12
C13_Witness ==
    /\ tree.step = "done"
    /\ tree.k = 3
    /\ tree.n = 2
    /\ tree.first_leaf = 4
    /\ tree.node_id = 12

\* C14: a session for a problem with zero nodes whose solver run leaves the
\* trace of the empty assignment emits exactly one assignment, the empty
\* vector, once, finishes with the list holding just that vector, and needs
\* no more than the iteration that finds it and the one that finds nothing.
C14_ZeroNodes ==
    (/\ num_nodes = 0
     /\ Finished
     /\ \E f \in work_dir.klee_out.files : f.ok /\ f.objects = {<<"color", <<>>>>}) =>
        /\ Emitted = {<<>>}
        /\ EmittedOnce
        /\ events[Len(events)].list = <<(<<>>)>>
        /\ iteration <= 2

\* C15: the assignments admitted by the generated program are the feasible
\* assignments of the problem minus exactly the vectors of the exclusion
\* list it was generated from.
C15_BlockingExact ==
    c_code # NoCode =>
        Admitted(c_code) =
            Feasible(c_code.NODES, c_code.COLORS, c_code.EDGES) \ Range(c_code.blocking)

\* C16: once a compiler or solver invocation of the session has failed (non-
\* zero exit or timeout), no subprocess is in flight and the session is on
\* its way out (finally clause, except clause, done): it never returns to
\* the loop, so no further invocation is started.
C16_NoRetry ==
    hist.tool_failed =>
        /\ child = "none"
        /\ pc \in {"finally", "except", "done"}

\* a session whose second iteration failed after the first had found a coloring
C16_Witness ==
    /\ hist.tool_failed
    /\ pc = "done"
    /\ iteration = 2
    /\ Count("found") >= 1

\* C17: at every moment of a session at most one subprocess started by it
\* (compiler or solver) has not yet ended, and it is the one the driver is
\* waiting for.
C17_OneProcess ==
    /\ hist.procs <= 1
    /\ hist.procs = 1 <=> child # "none"

\* the solver of a second iteration in flight
C17_Witness ==
    /\ child = "klee"
    /\ iteration = 2
    /\ hist.procs = 1

\* C18: once a run has reset the working directory, every output directory
\* in it was written by that run, and the directory a returned run hands to
\* the parser is one of them: nothing left by an earlier iteration or an
\* earlier session is parsed.
C18_FreshTraces ==
    /\ (iteration >= 1 /\ hist.run_iter = iteration) =>
          \A d \in work_dir.outs : d.run = hist.runs
    /\ pc \in {"check2", "parse"} =>
          /\ work_dir.klee_out.exists
          /\ work_dir.klee_out.run = hist.runs
          /\ \E d \in work_dir.outs : d.files = work_dir.klee_out.files

\* the second run of a session has returned its traces: the output
\* directory of the first run is gone
C18_Witness ==
    /\ pc = "parse"
    /\ iteration = 2
    /\ work_dir.klee_out.files # {}
    /\ Cardinality(work_dir.outs) = 1

\* C19: when the working directory holds several output directories, the
\* one the run returns has the greatest modification time, the trace files
\* it returns are exactly the files of that directory in ascending name
\* order, and the parser decodes them in that order; without any output
\* directory nothing is returned.
C19_LatestSelected ==
    /\ (pc \in {"d_parse", "d_done"} /\ work_dir.klee_out.exists) =>
          LET out == work_dir.klee_out IN
          /\ \E d \in work_dir.outs :
                /\ d.name = out.name
                /\ d.files = out.files
                /\ \A e \in work_dir.outs : e.mtime <= d.mtime
          /\ Len(out.ktests) = Cardinality(out.files)
          /\ Range(out.ktests) = out.files
          /\ \A i, j \in 1..Len(out.ktests) :
                i < j => out.ktests[i].name < out.ktests[j].name
          /\ (pc = "d_done" /\ exit_kind = "return") =>
                new = get_all_colorings(parse_all(out.ktests), num_nodes)
    /\ (pc \in {"d_parse", "d_done"} /\ ~work_dir.klee_out.exists) =>
          (work_dir.outs = {} /\ pc = "d_done" /\ exit_kind = "raise")

\* two output directories, the one with the smaller name modified last and
\* holding two traces with different assignments, both decoded
C19_Witness ==
    /\ pc = "d_done"
    /\ exit_kind = "return"
    /\ Cardinality(work_dir.outs) = 2
    /\ work_dir.klee_out.name = 0
    /\ \E e \in work_dir.outs : e.name = 1 /\ e.mtime = 1 /\ e.files # {}
    /\ Len(new) = 2
    /\ new[1] # new[2]

\* C20: when clang exits non-zero or leaves no bitcode file, the run ends by
\* raising an error whose message is built from clang's stderr (and from no
\* other text), and klee is not started for that run.
C20_CompileFailure ==
    hist.compile_failed =>
        /\ hist.run_outcome = "raised"
        /\ exc = clang_error(hist.diag)
        /\ \A s \in ClangStderr : s # hist.diag => exc # clang_error(s)
        /\ hist.klee_run # hist.runs
        /\ child = "none"

\* the second run of a session fails to produce bitcode, clang having
\* printed a diagnostic, and the session has reported it
C20_Witness ==
    /\ hist.compile_failed
    /\ hist.diag # ""
    /\ ~work_dir.bc_file
    /\ iteration = 2
    /\ pc = "done"
    /\ Count("error") = 1
    /\ events[Len(events)].msg = clang_error(hist.diag)

\* messages of the errors raised when clang, klee or klee.h cannot be located
\* (runner.py:27-28, 89-93, 146-150)
ConfigErrors ==
    {"Nije pronadjen KLEE-kompatibilan clang.", "klee nije na PATH-u.",
     "Ne mogu da nadjem klee/klee.h"}

\* C21: once a driver of the session has been constructed, no later step of
\* the session fails because clang, klee or the klee headers cannot be
\* located.
C21_ConfigOnce ==
    hist.constructed => exc \notin ConfigErrors

\* the value of each word the payloads are built from
WordValue(w) ==
    CASE w = Word0 -> 0
      [] w = Word1 -> 1
      [] w = WordQuote -> 39
      [] w = WordMinus1 -> -1
      [] w = WordMin -> -2147483647 - 1

\* C22: of the records of a trace, one whose length is a multiple of 4
\* decodes to exactly the values of its 32-bit words, in order, and one
\* whose length is not a multiple of 4 leaves no entry, whatever the other
\* record of the trace is.
C22_RecordDecoding ==
    ktest.step = "parsed" =>
        \A i \in 1..Len(ktest.records) :
            LET r == ktest.records[i] IN
            IF r.tail = <<>>
            THEN /\ HasKey(ktest.objects, r.name)
                 /\ Lookup(ktest.objects, r.name) =
                       [j \in 1..Len(r.words) |-> WordValue(r.words[j])]
            ELSE ~HasKey(ktest.objects, r.name)

\* the leaves below the node (depth d, index i) of the tree of depth n
LeavesBelow(t, d, i) ==
    {id \in DOMAIN t.coloring_map :
        t.node_items[id].node.index_in_level \div (t.tree_k^(t.tree_depth - d)) = i}

\* C23: the partial assignment reconstructed for a node at depth d holds
\* exactly the d digits chosen along its path, and it is the first d
\* entries of the assignment of every leaf below the node.
C23_PartialPath ==
    tree.step = "clicked" =>
        LET node == tree.node_items[tree.clicked].node
        IN  /\ Len(tree.partial) = node.depth
            /\ \A id \in LeavesBelow(tree, node.depth, node.index_in_level) :
                   SubSeq(tree.coloring_map[id], 1, node.depth) = tree.partial
\* the id that the position (depth, index_in_level) determines
IdOf(node, k) == compute_first_leaf_id(node.depth, k) + node.index_in_level

\* the ids of the nodes are 0..(number of nodes - 1), each position having
\* the id that it determines
IdsFromPositions(nodes, n, k) ==
    /\ \A node \in nodes : node.id = IdOf(node, k)
    /\ {<<node.depth, node.index_in_level>> : node \in nodes}
          = {<<d, i>> \in (0..n) \X (0..(k^n - 1)) : i < k^d}
    /\ {node.id : node \in nodes} = 0..(LevelsBefore(n + 1, k) - 1)

\* C24: in the tree built by build_full_tree and in the one built by
\* compute_tree_model_levels_positions every node's id is
\* compute_first_leaf_id(depth, k) + index_in_level, the ids are
\* 0..(total - 1) without gap or repeat, and a second build with the same
\* (n, k) gives the same ids.
C24_IdsFromPositions ==
    (tree.step = "modelled" /\ ~too_large(tree.n, tree.k)) =>
        LET built == {tree.node_items[id].node : id \in DOMAIN tree.node_items}
        IN  /\ IdsFromPositions(built, tree.n, tree.k)
            /\ ~tree.model.raised
            /\ IdsFromPositions(NodesOf(tree.model.levels), tree.n, tree.k)
            /\ NodesOf(tree.model.levels) = built
            /\ build_full_tree(tree, tree.n, tree.k).node_items = tree.node_items

C24_Witness ==
    /\ tree.step = "modelled"
    /\ tree.n = 2 /\ tree.k = 3
    /\ 12 \in DOMAIN tree.node_items
    /\ tree.node_items[12].node = [id |-> 12, depth |-> 2, index_in_level |-> 8]
\* C25: build_full_tree leaves the tree empty when k^n exceeds the
\* rendering cap and builds all (k^(n+1) - 1)/(k - 1) nodes (n + 1 for
\* k = 1) when it does not; building the tree changes nothing of the
\* enumeration engine.
C25_SizeGuard ==
    /\ [](tree.step \in {"built", "modelled", "clicked"} =>
            IF tree.k^tree.n > RenderCap
            THEN DOMAIN tree.node_items = {} /\ DOMAIN tree.coloring_map = {}
            ELSE Cardinality(DOMAIN tree.node_items)
                    = IF tree.k = 1 THEN tree.n + 1
                      ELSE (tree.k^(tree.n + 1) - 1) \div (tree.k - 1))
    /\ [][B_Build => UNCHANGED engine]_vars

C25_Witness ==
    /\ tree.step = "built"
    /\ tree.k^tree.n > RenderCap
    /\ tree.tree_k = tree.k
    /\ DOMAIN tree.node_items = {}
\* C26: the exclusion list given to a program generation strictly extends
\* the list given to the generation before it in the same session (same
\* prefix, at least one more element), and the first generation of a
\* session is given the empty list.
C26_ExclusionsGrow ==
    [][iteration' = iteration + 1 =>
          /\ c_code' = generate_code(num_nodes, edges, num_colors, blocked)
          /\ iteration = 0 => blocked = <<>>
          /\ iteration > 0 =>
                /\ Len(blocked) > Len(hist.excl)
                /\ SubSeq(blocked, 1, Len(hist.excl)) = hist.excl]_vars

C26_Witness ==
    /\ pc = "check1"
    /\ iteration = 3
    /\ Len(hist.excl) = 2
    /\ hist.excl = blocked
\* the number of terminal events emitted so far
Terminals == Count("finished") + Count("error") + Count("cancelled")

\* C28: under every interleaving of cancel() with run(), a session emits
\* at most one terminal event, and a session that has ended has emitted
\* exactly one of finished, error and cancelled, as its last event.
C28_OneTerminalEvent ==
    /\ Terminals <= 1
    /\ pc = "done" =>
          /\ Terminals = 1
          /\ events[Len(events)].sig \in {"finished", "error", "cancelled"}
\* the assignments of the `found` events among the first m events, in order
FoundBefore(m) ==
    LET found == SelectSeq(SubSeq(events, 1, m), LAMBDA e : e.sig = "found")
    IN  [i \in 1..Len(found) |-> found[i].coloring]

\* C29: the list carried by the `finished` event is, element for element
\* and in order, the sequence of assignments of the `found` events of the
\* session, and no `found` event follows it.
C29_FinishedListsFound ==
    \A i \in 1..Len(events) :
        events[i].sig = "finished" =>
            /\ events[i].list = FoundBefore(i)
            /\ events[i].list = FoundBefore(Len(events))

C29_Witness ==
    /\ pc = "done"
    /\ Count("finished") = 1
    /\ Len(events) = 3
    /\ Len(events[3].list) = 2
    /\ events[3].list[1] # events[3].list[2]
\* C27: after any sequence of editor operations, with n = node_count,
\* every edge tuple (i, j) of get_edges_as_tuples has i # j and
\* 0 <= i, j < n.
C27_WellFormedProblem ==
    LET n == Len(scene.nodes)
        es == get_edges_as_tuples(scene)
    IN  \A e \in 1..Len(es) :
            /\ es[e][1] # es[e][2]
            /\ 0 <= es[e][1] /\ es[e][1] < n
            /\ 0 <= es[e][2] /\ es[e][2] < n
\* the RUN KLEE button pressed on a graph with a node and an edge
RunStarts == scene' = scene /\ Len(scene.nodes) >= 1 /\ Len(scene.edges) >= 1

\* C30: in the tree built for a session, every assignment a in [0,k)^n is
\* marked at the leaf that spells it: the node id computed for marking a
\* (main_window.py:539-540) is the id of the leaf whose _coloring_map
\* entry, as filled by build_full_tree, is a.
C30_MarkedLeafSpells ==
    [][RunStarts =>
          \A a \in [1..num_nodes' -> 0..(tree_k(num_colors') - 1)] :
              LET node_id == get_leaf_node_id(a, tree_k(num_colors'), tree_depth(num_nodes'))
              IN  /\ node_id \in DOMAIN tree'.coloring_map
                  /\ tree'.coloring_map[node_id] = a]_vars
\* C31: a turn of the emission loop taken with the cancellation flag set
\* appends nothing to the exclusion list and emits nothing; once run() has
\* seen the flag set no `found` event is emitted any more, and no `found`
\* event follows the `cancelled` event.
C31_NoFoundAfterCancel ==
    /\ [][(pc = "emit" /\ cancel_event) =>
              (blocked' = blocked /\ all_colorings' = all_colorings /\ events' = events)]_vars
    /\ [][hist.observed =>
              /\ blocked' = blocked
              /\ \A i \in (Len(events) + 1)..Len(events') : events'[i].sig # "found"]_vars
    /\ [](\A i, j \in 1..Len(events) :
              (events[i].sig = "cancelled" /\ i < j) => events[j].sig # "found")

\* the loop saw the flag after its first emit, with one candidate left
C31_Witness ==
    /\ pc = "finally"
    /\ hist.observed
    /\ Len(new) = 2 /\ idx = 2
    /\ Len(blocked) = 1
    /\ Count("found") = 1
\* C32: for every k >= 1, n >= 0 and every assignment a in [0,k)^n the
\* coloring of the leaf index of a is a again, and no other assignment of
\* [0,k)^n has the leaf id of a.
C32_LeafBijection ==
    tree.step = "spelled" =>
        /\ tree.back \in 0..(tree.k^tree.n - 1)
        /\ tree.spelled = tree.coloring
        /\ \A b \in [1..tree.n -> 0..(tree.k - 1)] :
               b # tree.coloring => get_leaf_node_id(b, tree.k, tree.n) # tree.node_id

C32_Witness ==
    /\ tree.step = "spelled"
    /\ tree.k = 3 /\ tree.n = 3
    /\ tree.coloring = <<2, 0, 1>>
    /\ tree.back = 19
    /\ tree.node_id = 32
\* C33: the text displayed by Show Code is the program that the generator
\* produces for the current node count, edge list and number of colours
\* with an empty exclusion list.
C33_ShownCodeCurrent ==
    show.dialog # NoCode => show.dialog = window_generate_code
\* C34: in every editor state where undo is available, undo followed at
\* once by redo gives back the same nodes (ids, positions, colours), edges
\* and next_node_id and the same undo and redo stacks.
C34_UndoRedoIdentity ==
    scene.undo_stack # <<>> =>
        /\ redo(undo(scene)) = scene
        /\ get_current_state(undo(scene)) = scene.undo_stack[Len(scene.undo_stack)]

\* a node has been dragged and an edit undone, so both stacks hold states
\* and undo changes positions
C34_Witness ==
    /\ Len(scene.undo_stack) >= 2
    /\ scene.redo_stack # <<>>
    /\ undo(scene).nodes # scene.nodes
    /\ Len(undo(scene).nodes) = Len(scene.nodes)
    /\ redo(undo(scene)) = scene
\* C35: a step of add_node, add_edge, delete_node, delete_selected_nodes,
\* clear_graph or a node move that changes the graph leaves the redo
\* stack empty, so that can_redo() is false.
C35_EditClearsRedo ==
    [][((E_AddNode \/ E_AddEdge \/ E_DeleteNode \/ E_DeleteSelected \/ E_ClearGraph
            \/ E_MoveNode)
        /\ get_current_state(scene') # get_current_state(scene))
          => scene'.redo_stack = <<>>]_vars
\* C36: the undo stack never holds more than max_history states, nor do
\* the undo and redo stacks together, and a save on a full undo stack
\* discards its oldest state.
C36_HistoryBounded ==
    /\ [](/\ Len(scene.undo_stack) <= max_history
          /\ Len(scene.undo_stack) + Len(scene.redo_stack) <= max_history)
    /\ [][(H_AddNode /\ Len(scene.undo_stack) = max_history)
             => scene'.undo_stack = Append(Tail(scene.undo_stack), get_current_state(scene))]_vars

\* two saves went over the cap: the states with no node and with one node
\* are gone from a full undo stack
C36_Witness ==
    /\ Len(scene.undo_stack) = max_history
    /\ Len(scene.undo_stack[1].nodes) = 2
    /\ Len(scene.nodes) = max_history + 2
Connected(s, a, b) ==
    \E i \in 1..Len(s.edges) : {s.edges[i].source, s.edges[i].target} = {a, b}

\* C37: no edge of the editor joins a node to itself, no two edges join
\* the same unordered pair, and add_edge on a self-loop or on a pair that
\* is already joined in either orientation changes neither the nodes, the
\* edges nor the undo and redo stacks.
C37_SimpleEdges ==
    /\ \A i \in 1..Len(scene.edges) : scene.edges[i].source # scene.edges[i].target
    /\ \A i, j \in 1..Len(scene.edges) :
          i < j => {scene.edges[i].source, scene.edges[i].target}
                     # {scene.edges[j].source, scene.edges[j].target}
    /\ \A a, b \in NodeIds(scene) :
          (a = b \/ Connected(scene, a, b)) => add_edge(scene, a, b) = scene

\* after two nodes and an edge, a fourth operation that saved nothing and
\* moved nothing: add_edge on the pair already joined
C37_Witness ==
    /\ scene.edits = 4
    /\ Len(scene.undo_stack) = 3
    /\ Len(scene.edges) = 1
    /\ Len(scene.nodes) = 2
    /\ \A i \in 1..Len(scene.nodes) : scene.nodes[i].x \in {0, 100}

\* C38: the nodes of the editor have distinct ids, both ends of every
\* edge are ids of nodes of the editor, and the node that add_node appends
\* has the smallest natural number that is no id of a node.
C38_IdsAndEndpoints ==
    /\ \A i, j \in 1..Len(scene.nodes) : i # j => scene.nodes[i].id # scene.nodes[j].id
    /\ \A i \in 1..Len(scene.edges) :
          scene.edges[i].source \in NodeIds(scene) /\ scene.edges[i].target \in NodeIds(scene)
    /\ \A x \in Xs, y \in Ys :
          LET added == add_node(scene, x, y).nodes
              new_id == added[Len(added)].id
          IN  /\ Len(added) = Len(scene.nodes) + 1
              /\ new_id \in Nat \ NodeIds(scene)
              /\ \A smaller \in 0..(new_id - 1) : smaller \in NodeIds(scene)

\* node 0 of two was deleted with its edge and add_node gave its id to a
\* new node, which stands last in the list
C38_Witness ==
    /\ Len(scene.nodes) = 2
    /\ scene.nodes[1].id = 1
    /\ scene.nodes[2].id = 0
    /\ scene.next_node_id = 2
    /\ scene.edges = <<>>
    /\ Len(scene.undo_stack) = 5
    /\ Len(scene.undo_stack[4].edges) = 1
====
